---- MODULE Spec2Model ----
(***************************************************************************)
(* Verification model of the crawl / AI-extraction service:               *)
(*   utils/ai_extractor.py            AIExtractor (configuration, extract) *)
(*   markdown/content_source_server.py ContentSourceServer (request flow)  *)
(* Strings that are cut, joined or formatted are sequences of one-         *)
(* character strings; other texts are plain strings.  A dictionary key     *)
(* that is absent (or whose value is None) is the text Missing.            *)
(***************************************************************************)
EXTENDS Integers, Sequences, FiniteSets, TLC

\* ------------------------------------------------------------------ bounds
\* how far beyond the cut the longest content reaches
ExtraLen == 3
\* number of distinct characters in generated content
AlphabetSize == 3

\* ------------------------------------------------------- program constants
\* ai_extractor.py:206/271/336  content[:4000]
MaxContentLength == 4000
\* ai_extractor.py:227/364 and 287  aiohttp.ClientTimeout(total=...)
OpenAITimeout == 60
LocalTimeout == 120

Missing == "<missing>"

\* ------------------------------------------------------------ text helpers
Take(s, n) == SubSeq(s, 1, IF Len(s) < n THEN Len(s) ELSE n)

Alphabet == <<"a", "b", "c", "d">>

\* the content of length n: its i-th character depends on i
Content(n) == [i \in 1..n |-> Alphabet[(i % AlphabetSize) + 1]]

Ellipsis == <<".", ".", ".">>

\* str.format(content=...) on a template "pre{content}post"
Format(template, content) == template.pre \o content \o template.post

\* str(status) for the status codes the model draws
StatusText(status) ==
    CASE status = 200 -> "200"
      [] status = 201 -> "201"
      [] status = 204 -> "204"
      [] status = 404 -> "404"
      [] status = 500 -> "500"
      [] OTHER -> "?"

\* --------------------------------------------------------- configuration
Providers == {"openai", "azure_openai", "local_llm", "qwen"}

OpenAIPlaceholder == "your-openai-api-key-here"
QwenPlaceholder == "your-qwen-api-key-here"

NoSection == [present |-> FALSE, api_key |-> Missing, base_url |-> Missing, model |-> Missing]

Section(key, url, model) == [present |-> TRUE, api_key |-> key, base_url |-> url, model |-> model]

NoLLM == [present |-> FALSE, default_provider |-> Missing,
          openai |-> NoSection, azure_openai |-> NoSection,
          local_llm |-> NoSection, qwen |-> NoSection]

Template(mode) == [pre |-> <<"[", mode, "]">>, post |-> <<>>]

EmptyTemplate == [pre |-> <<>>, post |-> <<>>]

\* ai_extractor.py:204/269/334  the generic prompt "analyse the following content:\n{content}"
GenericTemplate == [pre |-> <<"analyse the following content:", "NL">>, post |-> <<>>]

NoExtraction == [present |-> FALSE, default_mode |-> Missing, prompts |-> [m \in {} |-> EmptyTemplate]]

Extraction(dm, modes) ==
    [present |-> TRUE, default_mode |-> dm, prompts |-> [m \in modes |-> Template(m)]]

NoneConfig ==
    [kind |-> "none", default_provider |-> Missing,
     openai |-> NoSection, azure_openai |-> NoSection,
     local_llm |-> NoSection, qwen |-> NoSection,
     llm |-> NoLLM, extraction |-> NoExtraction]

DefaultModes == {"structured_data", "summary", "keywords", "entities", "sentiment"}

\* AIExtractor._get_default_config: the providers live under "llm"
_get_default_config ==
    [kind |-> "map", default_provider |-> Missing,
     openai |-> NoSection, azure_openai |-> NoSection,
     local_llm |-> NoSection, qwen |-> NoSection,
     llm |-> [present |-> TRUE, default_provider |-> "openai",
              openai |-> Section("", "https://api.openai.com/v1", "gpt-3.5-turbo"),
              azure_openai |-> Section("", Missing, Missing),
              local_llm |-> Section(Missing, "http://localhost:11434", "llama2"),
              qwen |-> Section("", "https://dashscope.aliyuncs.com/compatible-mode/v1", "qwen-turbo")],
     extraction |-> Extraction("structured_data", DefaultModes)]

\* a configuration document with the providers at the top level, where
\* extract_with_* and get_available_providers read them
FlatConfig(dp, ko, kq, local, llmdp, ext) ==
    [kind |-> "map", default_provider |-> dp,
     openai |-> IF ko = "<nosection>" THEN NoSection
                ELSE Section(ko, "https://openai.example/v1", "gpt-4o"),
     azure_openai |-> NoSection,
     local_llm |-> IF local THEN Section(Missing, "http://ollama.example:11434", "qwen2") ELSE NoSection,
     qwen |-> IF kq = "<nosection>" THEN NoSection
              ELSE Section(kq, "https://qwen.example/v1", "qwen-max"),
     llm |-> IF llmdp = Missing THEN NoLLM
             ELSE [NoLLM EXCEPT !.present = TRUE, !.default_provider = llmdp],
     extraction |-> ext]

\* values an api_key entry can have: absent/None, empty, a placeholder, a key
ApiKeys == {Missing, "", OpenAIPlaceholder, QwenPlaceholder, "sk-real"}

\* the key of one credentialed provider varies while the other is fixed
KeyPairs ==
    {<<k, "sk-real">> : k \in ApiKeys \cup {"<nosection>"}}
        \cup {<<"sk-real", k>> : k \in ApiKeys \cup {"<nosection>"}}
        \cup {<<Missing, "">>}

ServerModes == {"structured_data", "content_summary", "key_points"}

Extractions == {NoExtraction, Extraction("content_summary", ServerModes)}

Documents ==
    {FlatConfig(dp, kp[1], kp[2], local, llmdp, ext) :
        dp \in {Missing, "qwen"}, kp \in KeyPairs, local \in BOOLEAN,
        llmdp \in {Missing, "qwen"}, ext \in Extractions}
      \cup {FlatConfig("local_llm", "sk-real", Missing, TRUE, Missing, Extraction(Missing, ServerModes)),
            FlatConfig("azure_openai", "sk-real", "sk-real", FALSE, "azure_openai", Extraction("summary", DefaultModes)),
            [FlatConfig(Missing, "sk-real", "sk-real", TRUE, Missing, Extraction("content_summary", ServerModes))
                EXCEPT !.azure_openai = Section("az-key", "https://azure.example", "gpt-4")]}

\* the state of the file at config_path
ConfigFiles ==
    {[state |-> st, doc |-> NoneConfig] : st \in {"missing", "unreadable", "malformed", "empty"}}
      \cup {[state |-> "document", doc |-> d] : d \in Documents}

\* AIExtractor._load_config: yaml.safe_load of an empty file is None
_load_config(file) ==
    CASE file.state = "missing" -> _get_default_config
      [] file.state \in {"unreadable", "malformed"} -> _get_default_config
      [] file.state = "empty" -> NoneConfig
      [] OTHER -> file.doc

\* ------------------------------------------------------------- envelopes
\* dict.get(key, default)
Get(d, key, default) == IF key \in DOMAIN d THEN d[key] ELSE default

NoEnvelope == [k \in {} |-> ""]

SuccessEnvelope(mode, provider, result) ==
    [success |-> TRUE, mode |-> mode, provider |-> provider,
     result |-> result, timestamp |-> "now"]

ErrorEnvelope(text) == [error |-> text]

\* the outcome of one call: an exception that escapes it, or the envelope it
\* returns, and the HTTP requests it issued on the way
Returned(envelope, requests) ==
    [raised |-> FALSE, exc |-> "", envelope |-> envelope, requests |-> requests]

Raises(exc) ==
    [raised |-> TRUE, exc |-> exc, envelope |-> NoEnvelope, requests |-> <<>>]

CredentialError == <<"API key not configured">>

\* ------------------------------------------------------ provider answers
CompletionText == "completion text"

\* what the HTTP POST can come back with
Responses ==
    {[kind |-> "response", status |-> st, body |-> b, exc |-> ""] :
        st \in {200}, b \in {"completion", "json_other", "not_json"}}
      \cup {[kind |-> "response", status |-> st, body |-> "completion", exc |-> ""] :
        st \in {201, 404, 500}}
      \cup {[kind |-> "neterr", status |-> 0, body |-> "", exc |-> e] :
        e \in {"ClientConnectorError", "TimeoutError"}}

\* ------------------------------------------------------- prompt building
\* content[:4000]
TruncateContent(content) == Take(content, MaxContentLength)

\* variant: no fallback for a mode without a template
SelectTemplateNoFallback(cfg, mode) ==
    IF mode \in DOMAIN cfg.extraction.prompts THEN cfg.extraction.prompts[mode] ELSE EmptyTemplate

\* prompts.get(mode, "") with the generic template for a falsy one
SelectTemplate(cfg, mode) ==
    LET prompts == cfg.extraction.prompts
        registered == IF mode \in DOMAIN prompts THEN prompts[mode] ELSE EmptyTemplate
    IN  IF registered = EmptyTemplate THEN GenericTemplate ELSE registered

InlinePrompt(cfg, content, mode) ==
    Format(SelectTemplate(cfg, mode), TruncateContent(content))

\* AIExtractor._build_prompt: the helper that marks the cut with "..."; no
\* extraction strategy calls it
_build_prompt(cfg, content, mode) ==
    LET prompts == cfg.extraction.prompts
        known == {"structured_data", "content_summary", "key_points", "entities", "sentiment"}
        template == IF mode \in known
                    THEN IF mode \in DOMAIN prompts THEN prompts[mode] ELSE Template(mode)
                    ELSE GenericTemplate
        cut == IF Len(content) > MaxContentLength
               THEN SubSeq(content, 1, MaxContentLength) \o Ellipsis
               ELSE content
    IN  Format(template, cut)

\* ------------------------------------------------------------ strategies
\* variant: every 2xx status counts as success
IsSuccessStatusAny2xx(status) == status >= 200 /\ status < 300

\* if response.status == 200
IsSuccessStatus(status) == status = 200

\* not api_key or api_key == placeholder
CredentialUnset(api_key, placeholder) ==
    api_key = Missing \/ api_key = "" \/ api_key = placeholder

OrDefault(value, default) == IF value = Missing THEN default ELSE value

\* the chat-completions answer handling shared by openai and qwen
ChatAnswer(provider, mode, resp) ==
    IF resp.kind = "neterr" THEN ErrorEnvelope(<<resp.exc>>)
    ELSE IF IsSuccessStatus(resp.status)
    THEN CASE resp.body = "completion" -> SuccessEnvelope(mode, provider, CompletionText)
           [] resp.body = "json_other" -> ErrorEnvelope(<<"KeyError", "choices">>)
           [] OTHER -> ErrorEnvelope(<<"ContentTypeError">>)
    ELSE ErrorEnvelope(<<"API request failed: ", StatusText(resp.status)>>)

extract_with_openai(cfg, content, mode, resp) ==
    IF cfg.kind = "none" THEN Returned(ErrorEnvelope(<<"AttributeError", "NoneType.get">>), <<>>)
    ELSE LET api_key == cfg.openai.api_key
             base_url == OrDefault(cfg.openai.base_url, "https://api.openai.com/v1")
             model == OrDefault(cfg.openai.model, "gpt-3.5-turbo")
         IN  IF CredentialUnset(api_key, OpenAIPlaceholder)
             THEN Returned(ErrorEnvelope(CredentialError), <<>>)
             ELSE LET request == [url |-> <<base_url, "/chat/completions">>,
                                  auth |-> api_key, model |-> model,
                                  prompt |-> InlinePrompt(cfg, content, mode),
                                  timeout |-> OpenAITimeout]
                  IN  Returned(ChatAnswer("openai", mode, resp), <<request>>)

extract_with_local_llm(cfg, content, mode, resp) ==
    IF cfg.kind = "none" THEN Returned(ErrorEnvelope(<<"AttributeError", "NoneType.get">>), <<>>)
    ELSE LET base_url == OrDefault(cfg.local_llm.base_url, "http://localhost:11434")
             model == OrDefault(cfg.local_llm.model, "llama2")
             request == [url |-> <<base_url, "/api/generate">>,
                         auth |-> Missing, model |-> model,
                         prompt |-> InlinePrompt(cfg, content, mode),
                         timeout |-> LocalTimeout]
             envelope ==
                 IF resp.kind = "neterr" THEN ErrorEnvelope(<<resp.exc>>)
                 ELSE IF IsSuccessStatus(resp.status)
                 THEN CASE resp.body = "completion" -> SuccessEnvelope(mode, "local_llm", CompletionText)
                        [] resp.body = "json_other" -> SuccessEnvelope(mode, "local_llm", "")
                        [] OTHER -> ErrorEnvelope(<<"ContentTypeError">>)
                 ELSE ErrorEnvelope(<<"local LLM request failed: ", StatusText(resp.status)>>)
         IN  Returned(envelope, <<request>>)

\* base_url.endswith(suffix) for the endpoints of the model
EndsWith(url, suffix) ==
    \/ suffix = "/chat/completions" /\ url \in {"https://qwen.example/v1/chat/completions"}
    \/ suffix = "/" /\ url \in {"https://qwen.example/v1/"}

extract_with_qwen(cfg, content, mode, resp) ==
    IF cfg.kind = "none" THEN Returned(ErrorEnvelope(<<"AttributeError", "NoneType.get">>), <<>>)
    ELSE LET api_key == cfg.qwen.api_key
             base_url == OrDefault(cfg.qwen.base_url, "https://dashscope.aliyuncs.com/compatible-mode/v1")
             model == OrDefault(cfg.qwen.model, "qwen-plus")
         IN  IF CredentialUnset(api_key, QwenPlaceholder)
             THEN Returned(ErrorEnvelope(CredentialError), <<>>)
             ELSE LET url == IF EndsWith(base_url, "/chat/completions") THEN <<base_url>>
                             ELSE IF EndsWith(base_url, "/") THEN <<base_url, "chat/completions">>
                             ELSE <<base_url, "/chat/completions">>
                      request == [url |-> url, auth |-> api_key, model |-> model,
                                  prompt |-> InlinePrompt(cfg, content, mode),
                                  timeout |-> OpenAITimeout]
                  IN  Returned(ChatAnswer("qwen", mode, resp), <<request>>)

\* the providers extract has a branch for
DispatchSet == {"openai", "local_llm", "qwen"}

\* extraction.default_mode with its literal fallback
DefaultMode(cfg) == OrDefault(cfg.extraction.default_mode, "structured_data")

\* the top-level default_provider with its literal fallback
DefaultProvider(cfg) == OrDefault(cfg.default_provider, "openai")

\* AIExtractor.extract; an absent or empty mode/provider is Missing
extract(cfg, content, mode, provider, resp) ==
    IF (mode = Missing \/ provider = Missing) /\ cfg.kind = "none"
    THEN Raises("AttributeError")
    ELSE LET m == IF mode = Missing THEN DefaultMode(cfg) ELSE mode
             p == IF provider = Missing THEN DefaultProvider(cfg) ELSE provider
         IN  CASE p = "openai" -> extract_with_openai(cfg, content, m, resp)
               [] p = "local_llm" -> extract_with_local_llm(cfg, content, m, resp)
               [] p = "qwen" -> extract_with_qwen(cfg, content, m, resp)
               [] OTHER -> Returned([success |-> FALSE,
                                     error |-> <<"unsupported provider: ", p>>], <<>>)

\* AIExtractor.get_available_modes
get_available_modes(cfg) == DOMAIN cfg.extraction.prompts

\* AIExtractor.get_available_providers (on a configuration that is a
\* mapping; "openai" in None raises TypeError): the top-level sections only
get_available_providers(cfg) ==
    LET listed(p) == IF p = "local_llm" THEN cfg.local_llm.present
                     ELSE cfg[p].present /\ cfg[p].api_key \notin {Missing, ""}
    IN  SelectSeq(<<"openai", "azure_openai", "local_llm", "qwen">>, listed)

\* GET /providers: default_provider is read under "llm"
ReportedDefaultProvider(cfg) == OrDefault(cfg.llm.default_provider, "openai")

\* ================================================================= state
VARIABLES
    config_file,    \* the file at AIExtractor.config_path
    config,         \* AIExtractor.config
    call,           \* the latest direct call of extract and its outcome
    pc,             \* per request: where _process_crawl_request stands
    request,        \* per request: url, content_source, ai_modes, save_files
    local,          \* per request: the handler's local variables
    response,       \* per request: what the caller of the handler gets
    effects,        \* per request: the external calls the handler has made
    temp_files,     \* the files under temp/
    objects,        \* the objects in object storage
    db_tasks,       \* committed crawl_tasks rows
    db_files,       \* committed crawl_files rows
    app_config_file,  \* the file at ConfigLoader.config_path
    _config,        \* ConfigLoader._config (None until a load succeeds)
    errors,         \* config_validator.errors
    warnings,       \* config_validator.warnings
    op              \* the latest loader/validator operation and its outcome

extractor_vars == <<config_file, config, call>>

server_vars == <<pc, request, local, response, effects, temp_files, objects, db_tasks, db_files>>

loader_vars == <<app_config_file, _config, errors, warnings, op>>

vars == <<config_file, config, call, pc, request, local, response, effects,
          temp_files, objects, db_tasks, db_files,
          app_config_file, _config, errors, warnings, op>>

\* ----------------------------------------------------- inputs of extract
ShortLens == {0, 2}

ContentLens == ShortLens \cup {MaxContentLength, MaxContentLength + 1, MaxContentLength + ExtraLen}

PromptFiles ==
    {[state |-> "missing", doc |-> NoneConfig],
     [state |-> "document",
      doc |-> FlatConfig(Missing, "sk-real", "sk-real", TRUE, Missing, Extraction("content_summary", ServerModes))],
     [state |-> "document",
      doc |-> FlatConfig("qwen", "sk-real", "sk-real", FALSE, Missing, NoExtraction)]}

CallModes == {Missing, "structured_data", "content_summary", "nonexistent_mode"}

CallProviders == {Missing, "openai", "local_llm", "qwen", "azure_openai", "unsupported"}

NoCall ==
    [made |-> FALSE, content |-> <<>>, mode |-> Missing, provider |-> Missing,
     resp |-> [kind |-> "neterr", status |-> 0, body |-> "", exc |-> ""],
     outcome |-> Raises("")]

\* ----------------------------------------------------- the request side
Reqs == {1, 2}

EmptyDict == [k \in {} |-> ""]

\* dict[key] = value
Put(d, key, value) == [k \in DOMAIN d \cup {key} |-> IF k = key THEN value ELSE d[k]]

\* urllib.parse.urlparse on a URL given as its pieces: the scheme is what
\* precedes ":", the host is what follows "//"
urlparse(url) ==
    LET hasScheme == Len(url) >= 2 /\ url[2] = ":"
        rest == IF hasScheme THEN SubSeq(url, 3, Len(url)) ELSE url
        hasHost == Len(rest) >= 2 /\ rest[1] = "//" /\ rest[2] \notin {"/", "/page"}
    IN  [scheme |-> IF hasScheme THEN url[1] ELSE "",
         netloc |-> IF hasHost THEN rest[2] ELSE ""]

\* variant: only the scheme is looked at
UrlInvalidSchemeOnly(url) == urlparse(url).scheme = ""

\* not parsed_url.scheme or not parsed_url.netloc
UrlInvalid(url) == urlparse(url).scheme = "" \/ urlparse(url).netloc = ""

Urls ==
    {<<"https", ":", "//", "example.com", "/page">>,
     <<"example.com", "/page">>,
     <<"//", "example.com", "/page">>,
     <<"https", ":", "/page">>,
     <<"https", ":", "//">>}

\* the ai_modes argument: None, or a list
ModeArgs ==
    {[given |-> FALSE, list |-> <<>>]}
      \cup {[given |-> TRUE, list |-> l] :
              l \in {<<>>, <<"content_summary">>, <<"structured_data", "content_summary">>,
                     <<"summary", "keywords">>, <<"key_points", "key_points">>,
                     <<"content_summary", "bogus">>, <<"bogus", "structured_data", "nope">>}}

\* CrawlRequest.ai_modes when the body of POST /crawl does not give it
CrawlRequestDefaultModes == <<"structured_data", "content_summary", "key_points">>

\* the ai_modes query parameter of GET /crawl_simple when it is not given,
\* split at ","
CrawlSimpleDefaultModes == <<"content_summary">>

\* if ai_modes is None: ai_modes = [...]
HandlerDefaultModes == <<"structured_data", "content_summary">>

\* [mode for mode in ai_modes if mode not in available_modes]
InvalidModes(ai_modes, available) ==
    LET Bad(m) == m \notin available IN SelectSeq(ai_modes, Bad)

Timestamps == {"20261101_120000"}

\* what crawler.arun can do: a result with success, a result with
\* success=False and an error_message, or an exception
CrawlOutcomes ==
    {[kind |-> "ok", markdown |-> Content(2), text |-> ""],
     [kind |-> "failed", markdown |-> <<>>, text |-> "net::ERR_NAME_NOT_RESOLVED"],
     [kind |-> "raised", markdown |-> <<>>, text |-> "BrowserError"]}

ServerResponses ==
    {rs \in Responses : \/ rs.kind = "response" /\ rs.status \in {200, 500} /\ rs.body # "not_json"
                        \/ rs.kind = "neterr" /\ rs.exc = "TimeoutError"}

ServerFiles ==
    {[state |-> "missing", doc |-> NoneConfig],
     [state |-> "empty", doc |-> NoneConfig],
     [state |-> "document",
      doc |-> FlatConfig(Missing, "sk-real", "sk-real", TRUE, Missing, Extraction("content_summary", ServerModes))],
     [state |-> "document",
      doc |-> FlatConfig("qwen", "sk-real", "", FALSE, "qwen", Extraction("content_summary", ServerModes))],
     [state |-> "document",
      doc |-> FlatConfig("local_llm", "sk-real", Missing, TRUE, Missing, Extraction(Missing, ServerModes))],
     [state |-> "document",
      doc |-> FlatConfig(Missing, "sk-real", "sk-real", TRUE, Missing, NoExtraction)]}

NoRequest == [url |-> <<>>, content_source |-> "", ai_modes |-> [given |-> FALSE, list |-> <<>>],
              save_files |-> FALSE]

NoLocal ==
    [timestamp |-> Missing, ai_modes |-> <<>>, crawl |-> "none", crawl_error |-> "",
     markdown |-> <<>>, ai_results |-> EmptyDict,
     next |-> 1, minio_urls |-> <<>>, save_queue |-> <<>>, storage_info |-> EmptyDict]

NoEffects == [crawler |-> 0, extract |-> <<>>, http |-> 0, writes |-> 0, uploads |-> <<>>, db |-> 0]

NoResponse ==
    [kind |-> "none", status |-> 0, detail |-> <<>>, success |-> FALSE, markdown |-> <<>>,
     ai_results |-> EmptyDict, storage_info |-> EmptyDict, error |-> <<>>]

\* raise HTTPException(status_code, detail), passed on by "except HTTPException: raise"
HttpError(status, detail) ==
    [NoResponse EXCEPT !.kind = "http_error", !.status = status, !.detail = detail]

\* CrawlResponse(success=False, ..., error=str(e))
FailureResponse(error) ==
    [NoResponse EXCEPT !.kind = "envelope", !.success = FALSE, !.error = error]

\* CrawlResponse(success=True, ...)
SuccessResponse(markdown, ai, storage) ==
    [NoResponse EXCEPT !.kind = "envelope", !.success = TRUE, !.markdown = markdown,
                       !.ai_results = ai, !.storage_info = storage]

\* the state the request side starts in; request 2 is not admitted
ServerIdle ==
    /\ pc = [r \in Reqs |-> IF r = 1 THEN "idle" ELSE "off"]
    /\ request = [r \in Reqs |-> NoRequest]
    /\ local = [r \in Reqs |-> NoLocal]
    /\ response = [r \in Reqs |-> NoResponse]
    /\ effects = [r \in Reqs |-> NoEffects]
    /\ temp_files = {}
    /\ objects = {}
    /\ db_tasks = <<>>
    /\ db_files = <<>>

\* ============================================ the application configuration
\* ------------------------------------------------------------ YAML values
\* a value of the configuration document: None, a string, an integer, a
\* list of strings or a mapping from keys to values
NoMap == [k \in {} |-> 0]

None == [t |-> "none", s |-> "", n |-> 0, l |-> <<>>, m |-> NoMap]

Str(s) == [None EXCEPT !.t = "str", !.s = s]

Num(n) == [None EXCEPT !.t = "int", !.n = n]

List(l) == [None EXCEPT !.t = "list", !.l = l]

Map(m) == [None EXCEPT !.t = "map", !.m = m]

\* "key in value": a mapping has it or not, a string or a list does not
\* hold the keys of the model
Contains(value, key) == value.t = "map" /\ key \in DOMAIN value.m

\* "key in value" raises TypeError for None and for an integer
NotIterable(value) == value.t \in {"none", "int"}

\* "not value": None, "", 0, [] and {} are false
Falsy(value) ==
    \/ value.t = "none"
    \/ value.t = "str" /\ value.s = ""
    \/ value.t = "int" /\ value.n = 0
    \/ value.t = "list" /\ value.l = <<>>
    \/ value.t = "map" /\ DOMAIN value.m = {}

\* isinstance(value, int), isinstance(value, (int, float))
IsInt(value) == value.t = "int"

\* a mapping without one of its keys
Without(value, key) == Map([k \in DOMAIN value.m \ {key} |-> value.m[k]])

\* mapping[key] = item
With(value, key, item) == Map(Put(value.m, key, item))

\* ------------------------------------------------------- ConfigValidator
\* the lists of one validate_all run and the exception that ended it, if any.
\* A validator below takes the lists as they are when it is called (findings)
\* and gives them back as they are when it returns; the lists it is called
\* with are evaluated once, then named st in its body
NoFindings == [errors |-> <<>>, warnings |-> <<>>, exc |-> ""]

\* self.errors.append(f"{text}{arg}")
Err(st, text, arg) ==
    [st EXCEPT !.errors = Append(@, [who |-> "", text |-> text, arg |-> arg])]

\* self.errors.append(f"{who} {text}{arg}")
ErrFor(st, who, text, arg) ==
    [st EXCEPT !.errors = Append(@, [who |-> who, text |-> text, arg |-> arg])]

\* self.warnings.append(f"{text}{arg}")
Warn(st, text, arg) ==
    [st EXCEPT !.warnings = Append(@, [who |-> "", text |-> text, arg |-> arg])]

\* self.warnings.append(f"{who} {text}")
WarnFor(st, who, text) ==
    [st EXCEPT !.warnings = Append(@, [who |-> who, text |-> text, arg |-> None])]

\* an exception leaves the section validators
Fail(st, exc) == [st EXCEPT !.exc = exc]

\* for field in required_fields: if field not in section: errors.append(...)
RequiredFields(findings, section, fields, text) ==
    LET Checked(st) ==
            IF st.exc # "" THEN st
            ELSE IF NotIterable(section) THEN Fail(st, "TypeError")
            ELSE LET Absent(f) == ~Contains(section, f)
                     absent == SelectSeq(fields, Absent)
                 IN  [st EXCEPT !.errors =
                         @ \o [i \in 1..Len(absent) |->
                                [who |-> "", text |-> text, arg |-> Str(absent[i])]]]
    IN  CHOOSE checked \in {Checked(st) : st \in {findings}} : TRUE


\* re.match(r'^\d+\.\d+\.\d+$', str(version)) for the versions of the model
IsSemver(version) == version.t = "str" /\ version.s \in {"1.0.0", "2.10.3"}

\* variant: zero counts as a port
PortInvalidFromZero(port) == ~IsInt(port) \/ port.n < 0 \/ port.n > 65535

\* not isinstance(port, int) or port < 1 or port > 65535
PortInvalid(port) == ~IsInt(port) \/ port.n < 1 \/ port.n > 65535

\* not isinstance(value, int) or value < 1
BelowOne(value) == ~IsInt(value) \/ value.n < 1

\* not isinstance(value, (int, float)) or value <= 0 (the model has no floats)
NotPositive(value) == ~IsInt(value) \/ value.n <= 0

\* not isinstance(value, int) or value < 0
Negative(value) == ~IsInt(value) \/ value.n < 0

\* ConfigValidator._is_valid_host for the host names of the model; re.match
\* raises TypeError for a value that is not a string
ValidHosts == {"localhost", "127.0.0.1", "db.internal"}

_is_valid_host(host) == host.t = "str" /\ host.s \in ValidHosts

\* ConfigValidator._is_valid_url: urlparse gives a scheme and a host
_is_valid_url(url) ==
    url.t = "str" /\ url.s \in {"https://api.openai.com/v1", "http://localhost:11434"}

\* not isinstance(t, (int, float)) or t < 0 or t > 2
TemperatureInvalid(temperature) ==
    ~IsInt(temperature) \/ temperature.n < 0 \/ temperature.n > 2

\* level not in valid_levels
LevelInvalid(level) ==
    ~(level.t = "str" /\ level.s \in {"DEBUG", "INFO", "WARNING", "ERROR", "CRITICAL"})

\* not isinstance(value, dict)
NotAMapping(value) == value.t # "map"

\* the conditions under which a value of a field is reported
Violates(rule, value) ==
    CASE rule = "port" -> PortInvalid(value)
      [] rule = "below_one" -> BelowOne(value)
      [] rule = "not_positive" -> NotPositive(value)
      [] rule = "negative" -> Negative(value)
      [] rule = "url" -> ~_is_valid_url(value)
      [] rule = "temperature" -> TemperatureInvalid(value)
      [] rule = "level" -> LevelInvalid(value)
      [] OTHER -> NotAMapping(value)

\* if key in section: value = section[key]; if <rule>(value): errors.append(...)
CheckField(findings, section, key, rule, text) ==
    LET Checked(st) ==
            IF st.exc # "" THEN st
            ELSE IF NotIterable(section) THEN Fail(st, "TypeError")
            ELSE IF Contains(section, key) /\ Violates(rule, section.m[key])
            THEN Err(st, text, section.m[key])
            ELSE st
    IN  CHOOSE checked \in {Checked(st) : st \in {findings}} : TRUE

\* ConfigValidator._validate_app_config
_validate_app_config(findings, app_config) ==
    LET Checked(st) ==
            LET s1 == RequiredFields(st, app_config, <<"name", "version">>,
                                     "app config lacks required field: ")
            IN  IF s1.exc # "" THEN s1
                ELSE IF Contains(app_config, "version") /\ ~IsSemver(app_config.m["version"])
                THEN Warn(s1, "version should be semantic (x.y.z): ", app_config.m["version"])
                ELSE s1
    IN  CHOOSE checked \in {Checked(st) : st \in {findings}} : TRUE

\* ConfigValidator._validate_server_config
_validate_server_config(findings, server_config) ==
    LET Checked(st) ==
            LET s1 == CheckField(st, server_config, "port", "port", "invalid server port: ")
                s2 == CheckField(s1, server_config, "workers", "below_one", "invalid worker count: ")
            IN  CheckField(s2, server_config, "timeout", "not_positive", "invalid server timeout: ")
    IN  CHOOSE checked \in {Checked(st) : st \in {findings}} : TRUE

\* the host check of _validate_database_config: a warning, never an error
CheckHost(findings, db_config) ==
    LET Checked(st) ==
            IF st.exc # "" \/ ~Contains(db_config, "host") THEN st
            ELSE IF db_config.m["host"].t # "str" THEN Fail(st, "TypeError")
            ELSE IF ~_is_valid_host(db_config.m["host"])
            THEN Warn(st, "database host may be malformed: ", db_config.m["host"])
            ELSE st
    IN  CHOOSE checked \in {Checked(st) : st \in {findings}} : TRUE

\* the pool checks of _validate_database_config
CheckPool(findings, db_config) ==
    LET Checked(st) ==
            IF st.exc # "" \/ ~Contains(db_config, "pool") THEN st
            ELSE LET pool_config == db_config.m["pool"]
                     s1 == CheckField(st, pool_config, "size", "below_one", "invalid pool size: ")
                 IN  CheckField(s1, pool_config, "max_overflow", "negative", "invalid pool max_overflow: ")
    IN  CHOOSE checked \in {Checked(st) : st \in {findings}} : TRUE

\* ConfigValidator._validate_database_config
_validate_database_config(findings, db_config) ==
    LET Checked(st) ==
            LET s1 == RequiredFields(st, db_config, <<"host", "port", "name", "username", "password">>,
                                     "database config lacks required field: ")
                s2 == CheckField(s1, db_config, "port", "port", "invalid database port: ")
            IN  CheckPool(CheckHost(s2, db_config), db_config)
    IN  CHOOSE checked \in {Checked(st) : st \in {findings}} : TRUE

\* endpoint.split(':') for the endpoints of the model
SplitColon(s) ==
    CASE s = "localhost:9000" -> <<"localhost", "9000">>
      [] s = "localhost:65535" -> <<"localhost", "65535">>
      [] s = "localhost:65536" -> <<"localhost", "65536">>
      [] s = "localhost:0" -> <<"localhost", "0">>
      [] s = "localhost:http" -> <<"localhost", "http">>
      [] s = "bad host:9000" -> <<"bad host", "9000">>
      [] s = "http://localhost:9000" -> <<"http", "//localhost", "9000">>
      [] OTHER -> <<s>>

\* int(port) for the port texts of the model; None stands for ValueError
ParseInt(s) ==
    CASE s = "9000" -> Num(9000)
      [] s = "65535" -> Num(65535)
      [] s = "65536" -> Num(65536)
      [] s = "0" -> Num(0)
      [] OTHER -> None

\* ConfigValidator._is_valid_endpoint on a string
_is_valid_endpoint(endpoint) ==
    LET parts == SplitColon(endpoint.s)
    IN  /\ Len(parts) = 2
        /\ ParseInt(parts[2]) # None
        /\ _is_valid_host(Str(parts[1]))
        /\ 1 <= ParseInt(parts[2]).n /\ ParseInt(parts[2]).n <= 65535

\* ConfigValidator._is_valid_bucket_name on None or a string
_is_valid_bucket_name(bucket_name) ==
    bucket_name.t = "str" /\ bucket_name.s \in {"crawl4ai-markdown", "crawl4ai-json", "abc"}

\* the endpoint check of _validate_minio_config; ':' not in endpoint raises
\* TypeError for None and for an integer
CheckEndpoint(findings, minio_config) ==
    LET Checked(st) ==
            IF st.exc # "" \/ ~Contains(minio_config, "endpoint") THEN st
            ELSE LET endpoint == minio_config.m["endpoint"]
                 IN  IF NotIterable(endpoint) THEN Fail(st, "TypeError")
                     ELSE IF endpoint.t = "str" /\ _is_valid_endpoint(endpoint) THEN st
                     ELSE Err(st, "invalid MinIO endpoint: ", endpoint)
    IN  CHOOSE checked \in {Checked(st) : st \in {findings}} : TRUE

\* not key or len(key.strip()) == 0; only a string has strip
CheckKey(findings, minio_config, field, text) ==
    LET Checked(st) ==
            IF st.exc # "" \/ ~Contains(minio_config, field) THEN st
            ELSE LET key == minio_config.m[field]
                 IN  IF Falsy(key) THEN Err(st, text, None)
                     ELSE IF key.t # "str" THEN Fail(st, "AttributeError")
                     ELSE IF key.s \in {" ", "   "} THEN Err(st, text, None)
                     ELSE st
    IN  CHOOSE checked \in {Checked(st) : st \in {findings}} : TRUE

\* the order in which the bucket entries and the timeout entries of the
\* documents of the model are written
BucketOrder == <<"markdown", "json", "ai_results">>

TimeoutOrder == <<"page", "request">>

\* for bucket_type, bucket_name in buckets.items(): ...; len() of an integer
\* raises TypeError
RECURSIVE CheckBucketNames(_, _, _)
CheckBucketNames(findings, buckets, types) ==
    LET Checked(st) ==
            IF st.exc # "" \/ types = <<>> THEN st
            ELSE LET bucket_name == buckets.m[Head(types)]
                     s1 == IF ~Falsy(bucket_name) /\ bucket_name.t = "int" THEN Fail(st, "TypeError")
                           ELSE IF ~_is_valid_bucket_name(bucket_name)
                           THEN Err(st, "invalid MinIO bucket name: ", bucket_name)
                           ELSE st
                 IN  CheckBucketNames(s1, buckets, Tail(types))
    IN  CHOOSE checked \in {Checked(st) : st \in {findings}} : TRUE

CheckBuckets(findings, minio_config) ==
    LET Checked(st) ==
            IF st.exc # "" \/ ~Contains(minio_config, "buckets") THEN st
            ELSE LET buckets == minio_config.m["buckets"]
                     Present(t) == t \in DOMAIN buckets.m
                 IN  IF buckets.t # "map" THEN Err(st, "MinIO buckets must be a mapping", None)
                     ELSE CheckBucketNames(st, buckets, SelectSeq(BucketOrder, Present))
    IN  CHOOSE checked \in {Checked(st) : st \in {findings}} : TRUE

CheckUpload(findings, minio_config) ==
    LET Checked(st) ==
            IF st.exc # "" \/ ~Contains(minio_config, "upload") THEN st
            ELSE CheckField(st, minio_config.m["upload"], "max_file_size", "not_positive",
                            "invalid MinIO max_file_size: ")
    IN  CHOOSE checked \in {Checked(st) : st \in {findings}} : TRUE

\* ConfigValidator._validate_minio_config
_validate_minio_config(findings, minio_config) ==
    LET Checked(st) ==
            LET s1 == RequiredFields(st, minio_config, <<"endpoint", "access_key", "secret_key">>,
                                     "MinIO config lacks required field: ")
                s2 == CheckEndpoint(s1, minio_config)
                s3 == CheckKey(s2, minio_config, "access_key", "MinIO access key must not be empty")
                s4 == CheckKey(s3, minio_config, "secret_key", "MinIO secret key must not be empty")
            IN  CheckUpload(CheckBuckets(s4, minio_config), minio_config)
    IN  CHOOSE checked \in {Checked(st) : st \in {findings}} : TRUE

\* the API key check of _validate_ai_provider_config: warnings only
CheckApiKey(findings, provider, provider_config) ==
    LET Checked(st) ==
            IF st.exc # "" \/ provider = "local_llm" THEN st
            ELSE IF NotIterable(provider_config) THEN Fail(st, "TypeError")
            ELSE IF ~Contains(provider_config, "api_key") THEN WarnFor(st, provider, "config lacks API key")
            ELSE LET api_key == provider_config.m["api_key"]
                 IN  IF Falsy(api_key) THEN WarnFor(st, provider, "API key is empty")
                     ELSE IF api_key.t # "str" THEN Fail(st, "AttributeError")
                     ELSE IF api_key.s \in {" ", "   "} THEN WarnFor(st, provider, "API key is empty")
                     ELSE st
    IN  CHOOSE checked \in {Checked(st) : st \in {findings}} : TRUE

\* if key in provider_config and <rule>(value): errors.append(f"{provider} ...")
CheckProviderField(findings, provider, provider_config, key, rule, text) ==
    LET Checked(st) ==
            IF st.exc # "" THEN st
            ELSE IF NotIterable(provider_config) THEN Fail(st, "TypeError")
            ELSE IF Contains(provider_config, key) /\ Violates(rule, provider_config.m[key])
            THEN ErrFor(st, provider, text, provider_config.m[key])
            ELSE st
    IN  CHOOSE checked \in {Checked(st) : st \in {findings}} : TRUE

\* ConfigValidator._validate_ai_provider_config
_validate_ai_provider_config(findings, provider, provider_config) ==
    LET Checked(st) ==
            LET s1 == CheckApiKey(st, provider, provider_config)
                s2 == CheckProviderField(s1, provider, provider_config, "base_url", "url",
                                         "base URL invalid: ")
                s3 == CheckProviderField(s2, provider, provider_config, "max_tokens", "not_positive",
                                         "max_tokens invalid: ")
            IN  CheckProviderField(s3, provider, provider_config, "temperature", "temperature",
                                   "temperature invalid: ")
    IN  CHOOSE checked \in {Checked(st) : st \in {findings}} : TRUE

RECURSIVE CheckProviders(_, _, _)
\* for provider in providers: if provider in ai_config: ...
CheckProviders(findings, ai_config, providers) ==
    LET Checked(st) ==
            IF st.exc # "" \/ providers = <<>> THEN st
            ELSE LET provider == Head(providers)
                     s1 == IF Contains(ai_config, provider)
                           THEN _validate_ai_provider_config(st, provider, ai_config.m[provider])
                           ELSE st
                 IN  CheckProviders(s1, ai_config, Tail(providers))
    IN  CHOOSE checked \in {Checked(st) : st \in {findings}} : TRUE

\* ConfigValidator._validate_ai_config
_validate_ai_config(findings, ai_config) ==
    LET Checked(st) ==
            IF st.exc # "" THEN st
            ELSE IF NotIterable(ai_config) THEN Fail(st, "TypeError")
            ELSE LET available_providers ==
                         IF ai_config.t = "map" THEN DOMAIN ai_config.m \ {"default_provider", "extraction"}
                         ELSE {}
                     s1 == IF ~Contains(ai_config, "default_provider") THEN st
                           ELSE LET default_provider == ai_config.m["default_provider"]
                                IN  IF default_provider.t = "str" /\ default_provider.s \in available_providers
                                    THEN st
                                    ELSE Err(st, "default AI provider is not defined: ", default_provider)
                 IN  CheckProviders(s1, ai_config, <<"openai", "azure_openai", "local_llm", "qwen">>)
    IN  CHOOSE checked \in {Checked(st) : st \in {findings}} : TRUE

RECURSIVE CheckTimeouts(_, _, _)
\* for timeout_type, timeout_value in timeout_config.items(): ...
CheckTimeouts(findings, timeout_config, types) ==
    LET Checked(st) ==
            IF types = <<>> THEN st
            ELSE LET timeout_value == timeout_config.m[Head(types)]
                     s1 == IF NotPositive(timeout_value)
                           THEN ErrFor(st, Head(types), "crawl timeout invalid: ", timeout_value)
                           ELSE st
                 IN  CheckTimeouts(s1, timeout_config, Tail(types))
    IN  CHOOSE checked \in {Checked(st) : st \in {findings}} : TRUE

\* ConfigValidator._validate_crawl_config
_validate_crawl_config(findings, crawl_config) ==
    LET Checked(st) ==
            IF st.exc # "" THEN st
            ELSE IF NotIterable(crawl_config) THEN Fail(st, "TypeError")
            ELSE LET valid_sources == {"cleaned_html", "raw_html", "fit_html"}
                     Unknown(source) == source \notin valid_sources
                     s1 == IF ~Contains(crawl_config, "content_sources") THEN st
                           ELSE LET sources == crawl_config.m["content_sources"]
                                    unknown == SelectSeq(sources.l, Unknown)
                                IN  IF sources.t # "list"
                                    THEN Err(st, "crawl content sources must be a list", None)
                                    ELSE [st EXCEPT !.warnings =
                                             @ \o [i \in 1..Len(unknown) |->
                                                    [who |-> "", text |-> "unknown content source: ",
                                                     arg |-> Str(unknown[i])]]]
                     Present(t) == t \in DOMAIN crawl_config.m["timeout"].m
                 IN  IF ~Contains(crawl_config, "timeout") THEN s1
                     ELSE IF crawl_config.m["timeout"].t # "map" THEN Fail(s1, "AttributeError")
                     ELSE CheckTimeouts(s1, crawl_config.m["timeout"], SelectSeq(TimeoutOrder, Present))
    IN  CHOOSE checked \in {Checked(st) : st \in {findings}} : TRUE

\* ConfigValidator._validate_logging_config
_validate_logging_config(findings, logging_config) ==
    LET Checked(st) ==
            LET s1 == CheckField(st, logging_config, "level", "level", "invalid log level: ")
            IN  CheckField(s1, logging_config, "files", "not_mapping", "log files config must be a mapping")
    IN  CHOOSE checked \in {Checked(st) : st \in {findings}} : TRUE

\* variant: the entries of the run before stay in the list
ClearedKeepsEntries(list) == list

\* self.errors.clear(), self.warnings.clear(): the first statements of
\* validate_all
Cleared(list) == <<>>

\* the body of the try block of validate_all: the sections in their order
ValidateSections(document) ==
    LET Optional(findings, key, Validator(_, _)) ==
            LET Checked(st) ==
                    IF st.exc = "" /\ Contains(document, key)
                    THEN Validator(st, document.m[key])
                    ELSE st
            IN  CHOOSE checked \in {Checked(st) : st \in {findings}} : TRUE
        Required(findings, key, Validator(_, _), text) ==
            LET Checked(st) ==
                    IF st.exc # "" THEN st
                    ELSE IF Contains(document, key) THEN Validator(st, document.m[key])
                    ELSE Err(st, text, Str(key))
            IN  CHOOSE checked \in {Checked(st) : st \in {findings}} : TRUE
        s1 == Optional(NoFindings, "app", _validate_app_config)
        s2 == Optional(s1, "server", _validate_server_config)
        s3 == Required(s2, "database", _validate_database_config, "missing config section: ")
        s4 == Required(s3, "minio", _validate_minio_config, "missing config section: ")
        s5 == Optional(s4, "ai", _validate_ai_config)
        s6 == Optional(s5, "crawl", _validate_crawl_config)
    IN  Optional(s6, "logging", _validate_logging_config)

\* return len(self.errors) == 0
Valid(findings) == Len(findings.errors) = 0

\* ConfigValidator.validate_all: the lists are cleared, the sections are
\* validated, an exception becomes one more error and the answer False
validate_all(document) ==
    LET Answer(st) ==
            LET findings == IF st.exc # ""
                            THEN [st EXCEPT !.errors =
                                     Append(@, [who |-> "", text |-> "validation raised: ",
                                                arg |-> Str(st.exc)])]
                            ELSE st
            IN  [valid |-> st.exc = "" /\ Valid(findings),
                 errors |-> findings.errors, warnings |-> findings.warnings]
    IN  CHOOSE answer \in {Answer(st) : st \in {ValidateSections(document)}} : TRUE

\* ---------------------------------------------------------- ConfigLoader
\* what "raise ConfigError(...)" raises: config_loader.py binds no name
\* ConfigError (it imports config_validator only, which defines
\* ConfigValidationError), so evaluating the name raises NameError
RaiseConfigError == "NameError"

\* ConfigLoader._validate_config: a failed validation raises; the NameError
\* of line 98 is caught at line 106, where isinstance(e, ConfigError) raises
\* NameError again. The lists are those the run leaves in the validator
_validate_config(document) ==
    CHOOSE outcome \in
        {[exc |-> IF answer.valid THEN "" ELSE RaiseConfigError,
          errors |-> answer.errors, warnings |-> answer.warnings] :
            answer \in {validate_all(document)}} : TRUE

\* ConfigLoader.load_config on the file at config_path: the exception it
\* raises ("" for none), the mapping it returns, whether validate_all ran,
\* and the lists the validator holds afterwards if it ran
load_config(file) ==
    LET loaded == IF file.state = "empty" THEN Map(NoMap) ELSE file.doc
    IN  IF file.state \in {"missing", "malformed", "unreadable"}
        THEN [exc |-> RaiseConfigError, config |-> None, validated |-> FALSE,
              document |-> None, errors |-> <<>>, warnings |-> <<>>]
        ELSE CHOOSE load \in
                 {[exc |-> checked.exc,
                   config |-> IF checked.exc = "" THEN loaded ELSE None,
                   validated |-> TRUE, document |-> loaded,
                   errors |-> checked.errors, warnings |-> checked.warnings] :
                     checked \in {_validate_config(loaded)}} : TRUE

\* path.split('.') on a path given as its pieces, "." being the separator
RECURSIVE Split(_)
Split(path) ==
    LET dots == {i \in 1..Len(path) : path[i] = "."}
        first == CHOOSE i \in dots : \A j \in dots : i <= j
        Key(piece) == IF piece = <<>> THEN "" ELSE piece[1]
    IN  IF dots = {} THEN <<Key(path)>>
        ELSE <<Key(SubSeq(path, 1, first - 1))>> \o Split(SubSeq(path, first + 1, Len(path)))

RECURSIVE Walk(_, _)
\* for key in keys: current = current[key]; KeyError for an absent key,
\* TypeError for a value that is not a mapping
Walk(current, keys) ==
    IF keys = <<>> THEN [found |-> TRUE, value |-> current]
    ELSE IF current.t = "map" /\ Head(keys) \in DOMAIN current.m
    THEN Walk(current.m[Head(keys)], Tail(keys))
    ELSE [found |-> FALSE, value |-> None]

\* variant: a default counts only when it is true
DefaultGivenTruthy(default) == ~Falsy(default)

\* if default is not None
DefaultGiven(default) == default # None

\* ConfigLoader.get_nested_config on a loaded configuration
get_nested_config(configuration, path, default) ==
    LET walked == Walk(configuration, Split(path))
    IN  IF walked.found THEN [raised |-> FALSE, exc |-> "", result |-> walked.value]
        ELSE IF DefaultGiven(default) THEN [raised |-> FALSE, exc |-> "", result |-> default]
        ELSE [raised |-> TRUE, exc |-> "KeyError", result |-> None]

\* variant: the new item is merged into what reload has read
ReloadedConfigKeepsUpdates(previous, loaded) ==
    Map([k \in DOMAIN previous.m \cup DOMAIN loaded.m |->
            IF k \in DOMAIN previous.m THEN previous.m[k] ELSE loaded.m[k]])

\* self._config = config: what a successful reload leaves in memory
ReloadedConfig(previous, loaded) == loaded

\* variant: the section is replaced by a mapping of the new item alone
update_config_replacing_section(configuration, section, key, value) ==
    [exc |-> "", config |-> With(configuration, section, Map(Put(NoMap, key, value)))]

\* ConfigLoader.update_config: the exception ("" for none) and the new
\* configuration; item assignment needs a mapping
update_config(configuration, section, key, value) ==
    LET target == IF section \in DOMAIN configuration.m THEN configuration.m[section]
                  ELSE Map(NoMap)
    IN  IF target.t # "map" THEN [exc |-> "TypeError", config |-> configuration]
        ELSE [exc |-> "", config |-> With(configuration, section, With(target, key, value))]

\* the loader and the validator before any call
NoOp == [name |-> "none", n |-> 0, raised |-> FALSE, exc |-> "", result |-> None,
         path |-> <<>>, default |-> None, doc |-> None, valid |-> FALSE, before |-> None]

LoaderIdle ==
    /\ app_config_file = [state |-> "missing", doc |-> None]
    /\ _config = None
    /\ errors = <<>>
    /\ warnings = <<>>
    /\ op = NoOp

\* AIExtractor.__init__ has run
InitExtractor ==
    /\ config_file \in ConfigFiles
    /\ config = _load_config(config_file)
    /\ call = NoCall
    /\ ServerIdle
    /\ LoaderIdle

\* one call extract(content, mode, provider) and the answer of the provider;
\* calls are independent of each other, so a behaviour holds one
ExtractCall(lens) ==
    \E n \in lens, mode \in CallModes, provider \in CallProviders, resp \in Responses :
        /\ ~call.made
        /\ call' = [made |-> TRUE, content |-> Content(n), mode |-> mode,
                    provider |-> provider, resp |-> resp,
                    outcome |-> extract(config, Content(n), mode, provider, resp)]
        /\ UNCHANGED <<config_file, config>>
        /\ UNCHANGED server_vars
        /\ UNCHANGED loader_vars

\* every configuration, short contents
NextExtract == ExtractCall(ShortLens)

SpecExtract == InitExtractor /\ [][NextExtract]_vars

\* a few configurations, contents up to and beyond the cut
InitPrompt ==
    /\ config_file \in PromptFiles
    /\ config = _load_config(config_file)
    /\ call = NoCall
    /\ ServerIdle
    /\ LoaderIdle

NextPrompt == ExtractCall(ContentLens)

SpecPrompt == InitPrompt /\ [][NextPrompt]_vars

\* ------------------------------------------- _process_crawl_request
\* where the handler goes once the modes are done
AfterExtract(r, save) == IF save THEN "save_markdown" ELSE "respond"

\* the handler of request q is between two awaits that suspend it: it runs
\* on the event loop and no other handler does. _save_results and
\* _save_to_database await nothing that suspends (file, MinIO and database
\* calls are synchronous), so persistence and the return are one run
Running(q) == pc[q] \in {"save_markdown", "save_ai", "save_json", "save_db", "respond"}

\* the event loop lets request r go on
Scheduled(r) == \A q \in Reqs \ {r} : ~Running(q)

\* the request arrives with one of the given arguments at one of the given
\* times; URL and modes are validated (lines 388-409)
Admit(r, urls, mode_args, saves, timestamps) ==
    /\ pc[r] = "idle" /\ Scheduled(r)
    /\ \E url \in urls, modes \in mode_args, save \in saves, ts \in timestamps :
        /\ request' = [request EXCEPT ![r] = [url |-> url, content_source |-> "cleaned_html",
                                              ai_modes |-> modes, save_files |-> save]]
        /\ LET ai_modes == IF modes.given THEN modes.list ELSE HandlerDefaultModes
               finish(res) == /\ response' = [response EXCEPT ![r] = res]
                              /\ pc' = [pc EXCEPT ![r] = "done"]
                              /\ local' = [local EXCEPT ![r].timestamp = ts]
           IN  IF UrlInvalid(url)
               THEN finish(HttpError(400, <<"invalid URL">>))
               ELSE IF config.kind = "none"
               THEN finish(FailureResponse(<<"AttributeError", "NoneType.get">>))
               ELSE IF InvalidModes(ai_modes, get_available_modes(config)) # <<>>
               THEN finish(HttpError(400, <<"invalid modes">>
                                \o InvalidModes(ai_modes, get_available_modes(config))))
               ELSE /\ local' = [local EXCEPT ![r].timestamp = ts, ![r].ai_modes = ai_modes]
                    /\ pc' = [pc EXCEPT ![r] = "crawl"]
                    /\ UNCHANGED response
    /\ UNCHANGED <<effects, temp_files, objects, db_tasks, db_files>>
    /\ UNCHANGED extractor_vars
    /\ UNCHANGED loader_vars

\* a request with any of the arguments of the model
Validate(r) == Admit(r, Urls, ModeArgs, BOOLEAN, Timestamps)

\* variant: the failure is reported in an envelope
CrawlFailureEnvelope(error_message) == FailureResponse(<<"crawl failed: ", error_message>>)

\* if not result.success: raise HTTPException(status_code=500, ...), which
\* "except HTTPException: raise" passes on to the caller
CrawlFailure(error_message) == HttpError(500, <<"crawl failed: ", error_message>>)

\* variant: a failed crawl is tried again
AfterCrawlErrorRetry == "crawl"

\* where the handler stands after the crawl did not succeed: the raise of
\* line 421 or the exception of crawler.arun leaves the try block, and the
\* except clauses (lines 465-474) end the handler
AfterCrawlError == "done"

\* variant: the modes are left out and the handler goes on at once
AfterCrawlOkSkipsModes(ai_modes, after) == after

\* where the handler goes on after a successful crawl: "if ai_modes:" runs
\* the loop over the modes (lines 427-441), an empty list skips it
AfterCrawlOk(ai_modes, after) == IF ai_modes # <<>> THEN "extract" ELSE after

\* crawler.arun and the check of result.success (lines 411-424)
Crawl(r) ==
    /\ pc[r] = "crawl" /\ Scheduled(r)
    /\ \E out \in CrawlOutcomes :
        /\ effects' = [effects EXCEPT ![r].crawler = @ + 1]
        /\ CASE out.kind = "ok" ->
                  /\ local' = [local EXCEPT ![r].markdown = out.markdown, ![r].crawl = "ok"]
                  /\ pc' = [pc EXCEPT ![r] = AfterCrawlOk(local[r].ai_modes,
                                                          AfterExtract(r, request[r].save_files))]
                  /\ UNCHANGED response
             [] out.kind = "failed" ->
                  /\ response' = [response EXCEPT ![r] = CrawlFailure(out.text)]
                  /\ pc' = [pc EXCEPT ![r] = AfterCrawlError]
                  /\ local' = [local EXCEPT ![r].crawl = "failed", ![r].crawl_error = out.text]
             [] OTHER ->
                  /\ response' = [response EXCEPT ![r] = FailureResponse(<<out.text>>)]
                  /\ pc' = [pc EXCEPT ![r] = AfterCrawlError]
                  /\ local' = [local EXCEPT ![r].crawl = "raised", ![r].crawl_error = out.text]
    /\ UNCHANGED <<request, temp_files, objects, db_tasks, db_files>>
    /\ UNCHANGED extractor_vars
    /\ UNCHANGED loader_vars

\* variant: a failed mode ends the loop
ModesDoneStopOnError(next, ai_modes, entry) == next = Len(ai_modes) \/ "error" \in DOMAIN entry

\* the for loop ends with the last mode, whatever the entries are
ModesDone(next, ai_modes, entry) == next = Len(ai_modes)

\* one turn of "for mode in ai_modes" (lines 430-441)
ExtractMode(r) ==
    /\ pc[r] = "extract" /\ Scheduled(r)
    /\ \E resp \in ServerResponses :
        LET mode == local[r].ai_modes[local[r].next]
            out == extract(config, local[r].markdown, mode, Missing, resp)
            entry == IF out.raised
                     THEN [success |-> FALSE, error |-> <<out.exc>>, mode |-> mode]
                     ELSE out.envelope
            last == ModesDone(local[r].next, local[r].ai_modes, entry)
        IN  /\ local' = [local EXCEPT ![r].ai_results = Put(@, mode, entry),
                                      ![r].next = @ + 1]
            /\ effects' = [effects EXCEPT ![r].extract = Append(@, mode),
                                          ![r].http = @ + Len(out.requests)]
            /\ pc' = [pc EXCEPT ![r] = IF last THEN AfterExtract(r, request[r].save_files)
                                       ELSE "extract"]
    /\ UNCHANGED <<request, response, temp_files, objects, db_tasks, db_files>>
    /\ UNCHANGED extractor_vars
    /\ UNCHANGED loader_vars

\* return CrawlResponse(success=True, ...) (lines 454-463)
Respond(r) ==
    /\ pc[r] = "respond" /\ Scheduled(r)
    /\ response' = [response EXCEPT ![r] = SuccessResponse(local[r].markdown,
                                                local[r].ai_results, local[r].storage_info)]
    /\ pc' = [pc EXCEPT ![r] = "done"]
    /\ UNCHANGED <<request, local, effects, temp_files, objects, db_tasks, db_files>>
    /\ UNCHANGED extractor_vars
    /\ UNCHANGED loader_vars

\* --------------------------------------------------------- _save_results
TempDir(ts) == <<"temp/server_results_", ts>>

MarkdownName(content_source, ts) == <<"markdown_", content_source, "_", ts, ".md">>

AiName(mode, ts) == <<"ai_", mode, "_", ts, ".md">>

JsonName(ts) == <<"complete_results_", ts, ".json">>

\* open(path, 'w') and the writes: a file of the same path is replaced
WriteFile(fs, file) == {f \in fs : f.path # file.path} \cup {file}

\* shutil.rmtree(temp_dir, ignore_errors=True)
RemoveTree(fs, dir) == {f \in fs : f.path[1] # dir}

\* f.write(text) appends nothing for the empty text
Written(text) == IF text = "" THEN <<>> ELSE <<text>>

\* MinIOManager.upload_file(file_path, object_name, bucket_name): the
\* (success, url, info) tuple it returns; it never raises
upload_file(file, object_name, bucket_name, ok) ==
    IF ok THEN <<TRUE, <<"minio">> \o bucket_name \o object_name,
                 [bucket |-> bucket_name, object_key |-> object_name, size |-> Len(file.body)]>>
    ELSE <<FALSE, <<>>, EmptyDict>>

\* client.fput_object: the object of that bucket and name is replaced
PutObject(store, file, object_name, bucket_name) ==
    {o \in store : ~(o.bucket = bucket_name /\ o.object = object_name)}
        \cup {[bucket |-> bucket_name, object |-> object_name, body |-> file.body]}

\* "if markdown_minio_url:" on what upload_file returned: a tuple is true
\* unless it is empty
Truthy(value) == Len(value) # 0

RECURSIVE Dedup(_)
\* the keys of a dict filled in the order of s: first occurrences
Dedup(s) ==
    IF s = <<>> THEN <<>>
    ELSE LET rest == Dedup(SubSeq(s, 1, Len(s) - 1))
             e == s[Len(s)]
         IN  IF \E i \in 1..Len(rest) : rest[i] = e THEN rest ELSE Append(rest, e)

\* the modes of "for mode, result in ai_results.items(): if result.get('success')"
SuccessfulModes(ai_modes, ai) ==
    LET Ok(m) == Get(ai[m], "success", FALSE) IN SelectSeq(Dedup(ai_modes), Ok)

\* variant: a failed upload ends the pass
AfterUploadStopOnFailure(result, nextpc) == IF result[1] THEN nextpc ELSE "respond"

\* where _save_results goes on after upload_file has returned: to the next
\* artifact, whatever was returned (upload_file catches its own exceptions)
AfterUpload(result, nextpc) == nextpc

\* one artifact: the temp file is written, upload_file is called with
\* (path, bucket literal, file name), and the entry is appended when the
\* returned value is true; a failing write ends _save_results in its except
StoreArtifact(r, name, body, bucket_literal, type, fs_ok, up_ok, nextpc) ==
    LET file == [path |-> <<TempDir(local[r].timestamp), name>>, body |-> body]
        result == upload_file(file, <<bucket_literal>>, name, up_ok)
        entry == [type |-> type, filename |-> name, url |-> result, size |-> Len(body)]
    IN  IF ~fs_ok
        THEN /\ local' = [local EXCEPT ![r].storage_info = [error |-> <<"OSError">>]]
             /\ effects' = [effects EXCEPT ![r].writes = @ + 1]
             /\ pc' = [pc EXCEPT ![r] = "respond"]
             /\ UNCHANGED <<temp_files, objects>>
        ELSE /\ temp_files' = WriteFile(temp_files, file)
             /\ objects' = IF up_ok THEN PutObject(objects, file, <<bucket_literal>>, name)
                           ELSE objects
             /\ effects' = [effects EXCEPT
                              ![r].writes = @ + 1,
                              ![r].uploads = Append(@, [path |-> file.path,
                                                        object_name |-> <<bucket_literal>>,
                                                        bucket_name |-> name, ok |-> up_ok])]
             /\ local' = [local EXCEPT
                            ![r].minio_urls = IF Truthy(result) THEN Append(@, entry) ELSE @,
                            ![r].save_queue =
                                IF pc[r] = "save_markdown"
                                THEN SuccessfulModes(local[r].ai_modes, local[r].ai_results)
                                ELSE IF pc[r] = "save_ai" THEN Tail(@) ELSE @]
             /\ pc' = [pc EXCEPT ![r] = AfterUpload(result, nextpc)]

\* 1. the markdown file (lines 497-529)
SaveMarkdown(r) ==
    /\ pc[r] = "save_markdown" /\ Scheduled(r)
    /\ \E fs_ok \in BOOLEAN, up_ok \in BOOLEAN :
        StoreArtifact(r, MarkdownName(request[r].content_source, local[r].timestamp),
                      <<"# crawl result", "---">> \o local[r].markdown,
                      "crawl4ai-markdown", "markdown", fs_ok, up_ok,
                      IF SuccessfulModes(local[r].ai_modes, local[r].ai_results) # <<>>
                      THEN "save_ai" ELSE "save_json")
    /\ UNCHANGED <<request, response, db_tasks, db_files>>
    /\ UNCHANGED extractor_vars
    /\ UNCHANGED loader_vars

\* 2. one successful mode's file (lines 531-558); the body is
\*    result.get("content", "")
SaveAi(r) ==
    /\ pc[r] = "save_ai" /\ Scheduled(r)
    /\ \E fs_ok \in BOOLEAN, up_ok \in BOOLEAN :
        LET mode == Head(local[r].save_queue)
            result == local[r].ai_results[mode]
        IN  StoreArtifact(r, AiName(mode, local[r].timestamp),
                          <<"# AI result", mode, Get(result, "provider", "unknown"), "---">>
                              \o Written(Get(result, "content", "")),
                          "crawl4ai-ai-results", <<"ai_", mode>>, fs_ok, up_ok,
                          IF Len(local[r].save_queue) > 1 THEN "save_ai" ELSE "save_json")
    /\ UNCHANGED <<request, response, db_tasks, db_files>>
    /\ UNCHANGED extractor_vars
    /\ UNCHANGED loader_vars

\* 3. the combined JSON document (lines 560-588)
SaveJson(r) ==
    /\ pc[r] = "save_json" /\ Scheduled(r)
    /\ \E fs_ok \in BOOLEAN, up_ok \in BOOLEAN :
        StoreArtifact(r, JsonName(local[r].timestamp),
                      <<"{json}">> \o local[r].markdown,
                      "crawl4ai-json", "json", fs_ok, up_ok, "save_db")
    /\ UNCHANGED <<request, response, db_tasks, db_files>>
    /\ UNCHANGED extractor_vars
    /\ UNCHANGED loader_vars

\* the crawl_files row built from a minio_files entry: minio_bucket and
\* minio_object_key (nullable=False) are not given
CrawlFileRow(task_id, info) ==
    [task_id |-> task_id, filename |-> info.filename, file_type |-> info.type,
     file_size |-> info.size, minio_url |-> info.url,
     minio_bucket |-> Missing, minio_object_key |-> Missing]

\* the NOT NULL columns of crawl_files
Insertable(row) == row.minio_bucket # Missing /\ row.minio_object_key # Missing

\* 4./5. _save_to_database, rmtree and the returned storage_info (lines
\* 590-601, 607-646); database_id 0 stands for None
SaveDb(r) ==
    /\ pc[r] = "save_db" /\ Scheduled(r)
    /\ \E outcome \in {"no_session", "timestamp_rejected", "task_commit_fails", "task_committed"} :
        LET task_id == Len(db_tasks) + 1
            task == [id |-> task_id, url |-> request[r].url,
                     content_source |-> request[r].content_source,
                     status |-> "completed", created_at |-> local[r].timestamp]
            rows == [i \in 1..Len(local[r].minio_urls) |->
                        CrawlFileRow(task_id, local[r].minio_urls[i])]
            filesOk == \A i \in 1..Len(rows) : Insertable(rows[i])
            db_record_id == IF outcome = "task_committed" /\ filesOk THEN task_id ELSE 0
        IN  /\ db_tasks' = IF outcome = "task_committed" THEN Append(db_tasks, task) ELSE db_tasks
            /\ db_files' = IF outcome = "task_committed" /\ filesOk THEN db_files \o rows
                           ELSE db_files
            /\ effects' = [effects EXCEPT ![r].db = @ + 1]
            /\ local' = [local EXCEPT
                           ![r].storage_info = [database_id |-> db_record_id,
                                                minio_files |-> local[r].minio_urls,
                                                total_files |-> Len(local[r].minio_urls)]]
    /\ temp_files' = RemoveTree(temp_files, TempDir(local[r].timestamp))
    /\ pc' = [pc EXCEPT ![r] = "respond"]
    /\ UNCHANGED <<request, response, objects>>
    /\ UNCHANGED extractor_vars
    /\ UNCHANGED loader_vars

\* ------------------------------------------------------------ the server
Init ==
    /\ config_file \in ServerFiles
    /\ config = _load_config(config_file)
    /\ call = NoCall
    /\ ServerIdle
    /\ LoaderIdle

Next ==
    \E r \in Reqs :
        \/ Validate(r)
        \/ Crawl(r)
        \/ ExtractMode(r)
        \/ SaveMarkdown(r)
        \/ SaveAi(r)
        \/ SaveJson(r)
        \/ SaveDb(r)
        \/ Respond(r)

Spec == Init /\ [][Next]_vars

\* ------------------------------------------------- two requests at once
\* datetime.now().strftime("%Y%m%d_%H%M%S"): the two requests arrive within
\* one second or in two
PairTimestamps == {"20261101_120000", "20261101_120001"}

\* two requests for saved results of the same content source
ValidatePair(r) ==
    Admit(r, {<<"https", ":", "//", "example.com", "/page">>,
              <<"https", ":", "//", "example.org", "/">>},
          {[given |-> TRUE, list |-> <<"content_summary">>]}, {TRUE}, PairTimestamps)

InitPair ==
    /\ config_file = [state |-> "document",
                      doc |-> FlatConfig(Missing, "sk-real", "sk-real", TRUE, Missing,
                                         Extraction("content_summary", ServerModes))]
    /\ config = _load_config(config_file)
    /\ call = NoCall
    /\ pc = [r \in Reqs |-> "idle"]
    /\ request = [r \in Reqs |-> NoRequest]
    /\ local = [r \in Reqs |-> NoLocal]
    /\ response = [r \in Reqs |-> NoResponse]
    /\ effects = [r \in Reqs |-> NoEffects]
    /\ temp_files = {}
    /\ objects = {}
    /\ db_tasks = <<>>
    /\ db_files = <<>>
    /\ LoaderIdle

NextPair ==
    \E r \in Reqs :
        \/ ValidatePair(r)
        \/ Crawl(r)
        \/ ExtractMode(r)
        \/ SaveMarkdown(r)
        \/ SaveAi(r)
        \/ SaveJson(r)
        \/ SaveDb(r)
        \/ Respond(r)

SpecPair == InitPair /\ [][NextPair]_vars

\* ------------------------------------------- configuration documents
\* how far beyond the two ends of the port range the documents go
PortSlack == 2

\* calls of validate_config in one behaviour
MaxValidateCalls == 2

\* loader operations in one behaviour
MaxOps == 3

\* a document every check of the validator accepts without a warning
GoodDoc ==
    Map([app |-> Map([name |-> Str("crawl4ai"), version |-> Str("1.0.0")]),
         server |-> Map([port |-> Num(8000), workers |-> Num(1)]),
         database |-> Map([host |-> Str("localhost"), port |-> Num(5432), name |-> Str("crawl"),
                           username |-> Str("user"), password |-> Str("pw"),
                           pool |-> Map([size |-> Num(5)])]),
         minio |-> Map([endpoint |-> Str("localhost:9000"), access_key |-> Str("ak"),
                        secret_key |-> Str("sk"),
                        buckets |-> Map([markdown |-> Str("crawl4ai-markdown")])])])

PortValues ==
    {Num(1 - k) : k \in 0..PortSlack} \cup {Num(65535 + k) : k \in 0..PortSlack}
        \cup {Num(1 + k) : k \in 1..PortSlack} \cup {Num(65535 - k) : k \in 1..PortSlack}
        \cup {Num(8080), Str("8080"), None}

RequiredOf(section) ==
    CASE section = "app" -> {"name", "version"}
      [] section = "database" -> {"host", "port", "name", "username", "password"}
      [] section = "minio" -> {"endpoint", "access_key", "secret_key"}
      [] OTHER -> {}

\* one edit of a document: a section or a field is dropped or given a value
Edit(kind, section, field, value) ==
    [kind |-> kind, section |-> section, field |-> field, value |-> value]

Edits ==
    {Edit("keep", "", "", None)}
      \cup {Edit("drop_section", sec, "", None) : sec \in {"app", "server", "database", "minio"}}
      \cup {Edit("set_section", sec, "", None) : sec \in {"app", "server", "database", "minio"}}
      \cup {Edit("drop_field", "app", f, None) : f \in RequiredOf("app")}
      \cup {Edit("drop_field", "database", f, None) : f \in RequiredOf("database")}
      \cup {Edit("drop_field", "minio", f, None) : f \in RequiredOf("minio")}
      \cup {Edit("set_field", sec, "port", v) : sec \in {"server", "database"}, v \in PortValues}
      \cup {Edit("set_field", "app", "version", Str("v1")),
            Edit("set_field", "database", "host", Str("bad host")),
            Edit("set_field", "database", "host", Num(127)),
            Edit("set_field", "database", "pool", None),
            Edit("set_field", "minio", "endpoint", Str("localhost:65536")),
            Edit("set_field", "minio", "endpoint", Str("localhost")),
            Edit("set_field", "minio", "access_key", Str("")),
            Edit("set_field", "minio", "access_key", Num(12345)),
            Edit("set_field", "minio", "buckets", Map([markdown |-> Str("Bad_Bucket"),
                                                       json |-> Str("ab")])),
            Edit("set_field", "minio", "upload", Map([max_file_size |-> Num(0)])),
            Edit("set_section", "ai", "", Map([default_provider |-> Str("openai"),
                                               openai |-> Map([model |-> Str("gpt-4o")])])),
            Edit("set_section", "ai", "", Map([default_provider |-> Str("qwen"),
                                               local_llm |-> Map([temperature |-> Num(3)])])),
            Edit("set_section", "crawl", "", Map([content_sources |-> List(<<"raw_html", "pdf">>),
                                                  timeout |-> Map([page |-> Num(30),
                                                                   request |-> Num(0)])])),
            Edit("set_section", "logging", "", Map([level |-> Str("TRACE")]))}

ApplyEdit(document, e) ==
    CASE e.kind = "drop_section" -> Without(document, e.section)
      [] e.kind = "set_section" -> With(document, e.section, e.value)
      [] e.kind = "drop_field" /\ Contains(document, e.section)
            /\ document.m[e.section].t = "map"
            -> With(document, e.section, Without(document.m[e.section], e.field))
      [] e.kind = "set_field" /\ Contains(document, e.section)
            /\ document.m[e.section].t = "map"
            -> With(document, e.section, With(document.m[e.section], e.field, e.value))
      [] OTHER -> document

\* the documents validate_config is called with: GoodDoc after two edits
ValidateDocs == {ApplyEdit(ApplyEdit(GoodDoc, e1), e2) : e1, e2 \in Edits}

\* the documents of a later call on the same validator
RevalidateDocs ==
    {GoodDoc, ApplyEdit(GoodDoc, Edit("set_field", "app", "version", Str("v1"))),
     ApplyEdit(GoodDoc, Edit("drop_field", "database", "host", None))}

\* the states of the file at ConfigLoader.config_path
LoaderFiles ==
    {[state |-> st, doc |-> None] : st \in {"missing", "malformed", "unreadable", "empty"}}
      \cup {[state |-> "document", doc |-> d] :
              d \in {GoodDoc,
                     ApplyEdit(GoodDoc, Edit("set_field", "app", "version", Str("v1"))),
                     ApplyEdit(GoodDoc, Edit("set_field", "server", "port", Num(0))),
                     ApplyEdit(GoodDoc, Edit("drop_section", "database", "", None)),
                     ApplyEdit(GoodDoc, Edit("set_section", "server", "", None)),
                     ApplyEdit(GoodDoc, Edit("drop_section", "app", "", None))}}

\* what the file is rewritten to between two loads
RewrittenFiles ==
    {f \in LoaderFiles : f.state \in {"missing", "empty"} \/ f.doc = GoodDoc
                         \/ (f.state = "document" /\ ~Contains(f.doc, "database"))}

UpdateSections == {"database", "server", "cache"}

UpdateKeys == {"port", "ttl"}

UpdateValues == {Num(0), Str("x")}

NestedPaths ==
    {<<"database", ".", "port">>, <<"database", ".", "pool", ".", "size">>,
     <<"database", ".", "pool", ".", "timeout">>, <<"database", ".", "port", ".", "x">>,
     <<"cache", ".", "ttl">>, <<"app">>, <<"database", ".", ".", "port">>, <<>>}

NestedDefaults == {None, Num(0), Str("fallback"), Map(NoMap)}

\* ------------------------------------------------ the loader at work
\* the extractor and the request side stay as constructed
ExtractorIdle ==
    /\ config_file = [state |-> "missing", doc |-> NoneConfig]
    /\ config = _load_config(config_file)
    /\ call = NoCall

\* what one validate_all run leaves in the shared validator
ListsAfter(load, which, previous) ==
    IF load.validated THEN Cleared(previous) \o load[which] ELSE previous

\* ConfigLoader(config_path): __init__ loads the file and passes a failure on
InitConfig ==
    /\ app_config_file \in LoaderFiles
    /\ \E load \in {load_config(app_config_file)} :
           /\ _config = load.config
           /\ errors = ListsAfter(load, "errors", <<>>)
           /\ warnings = ListsAfter(load, "warnings", <<>>)
           /\ op = [NoOp EXCEPT !.name = "construct", !.raised = load.exc # "",
                                !.exc = load.exc, !.result = load.config]
    /\ ExtractorIdle
    /\ ServerIdle

\* ConfigLoader.reload_config
Reload ==
    /\ _config # None /\ op.n < MaxOps
    /\ \E load \in {load_config(app_config_file)} :
           /\ _config' = IF load.exc = "" THEN ReloadedConfig(_config, load.config) ELSE _config
           /\ errors' = ListsAfter(load, "errors", errors)
           /\ warnings' = ListsAfter(load, "warnings", warnings)
           /\ op' = [NoOp EXCEPT !.name = "reload_config", !.n = op.n + 1,
                                 !.raised = load.exc # "", !.exc = load.exc,
                                 !.before = _config]
    /\ UNCHANGED app_config_file
    /\ UNCHANGED <<extractor_vars, server_vars>>

\* ConfigLoader.update_config(section, key, value)
Update ==
    /\ _config # None /\ op.n < MaxOps
    /\ \E section \in UpdateSections, key \in UpdateKeys, value \in UpdateValues :
        LET updated == update_config(_config, section, key, value)
        IN  /\ _config' = updated.config
            /\ op' = [NoOp EXCEPT !.name = "update_config", !.n = op.n + 1,
                                  !.raised = updated.exc # "", !.exc = updated.exc,
                                  !.path = <<section, key>>, !.default = value,
                                  !.before = _config]
    /\ UNCHANGED <<app_config_file, errors, warnings>>
    /\ UNCHANGED <<extractor_vars, server_vars>>

\* ConfigLoader.get_nested_config(path, default)
GetNested ==
    /\ _config # None /\ op.n < MaxOps
    /\ \E path \in NestedPaths, default \in NestedDefaults :
        LET got == get_nested_config(_config, path, default)
        IN  op' = [NoOp EXCEPT !.name = "get_nested_config", !.n = op.n + 1,
                               !.raised = got.raised, !.exc = got.exc, !.result = got.result,
                               !.path = path, !.default = default, !.before = _config]
    /\ UNCHANGED <<app_config_file, _config, errors, warnings>>
    /\ UNCHANGED <<extractor_vars, server_vars>>

\* the file at config_path is rewritten from outside
RewriteFile ==
    /\ _config # None /\ op.n < MaxOps
    /\ \E file \in RewrittenFiles :
        /\ file # app_config_file
        /\ app_config_file' = file
    /\ op' = [NoOp EXCEPT !.name = "rewrite", !.n = op.n + 1, !.before = _config]
    /\ UNCHANGED <<_config, errors, warnings>>
    /\ UNCHANGED <<extractor_vars, server_vars>>

NextConfig == Reload \/ Update \/ GetNested \/ RewriteFile

SpecConfig == InitConfig /\ [][NextConfig]_vars

\* the shared validator called directly, as validate_config(config) does
InitValidate ==
    /\ LoaderIdle
    /\ ExtractorIdle
    /\ ServerIdle

ValidateCall ==
    /\ op.n < MaxValidateCalls
    /\ \E document \in IF op.n = 0 THEN ValidateDocs ELSE RevalidateDocs :
        LET answer == validate_all(document)
        IN  /\ errors' = Cleared(errors) \o answer.errors
            /\ warnings' = Cleared(warnings) \o answer.warnings
            /\ op' = [NoOp EXCEPT !.name = "validate_all", !.n = op.n + 1,
                                  !.doc = document, !.valid = answer.valid,
                                  !.before = Num(Len(errors) + Len(warnings))]
    /\ UNCHANGED <<app_config_file, _config>>
    /\ UNCHANGED <<extractor_vars, server_vars>>

NextValidate == ValidateCall

SpecValidate == InitValidate /\ [][NextValidate]_vars

\* ================================================================ claims
Range(seq) == {seq[i] : i \in 1..Len(seq)}

Carries(text, piece) == \E i \in 1..Len(text) : text[i] = piece

\* the handler of request r has called neither the extractor nor storage
NoExtractionOrPersistence(r) ==
    /\ effects[r].extract = <<>> /\ effects[r].http = 0
    /\ effects[r].writes = 0 /\ effects[r].uploads = <<>> /\ effects[r].db = 0

StoreUntouched == temp_files = {} /\ objects = {} /\ db_tasks = <<>> /\ db_files = <<>>

\* the modes the request asks for: its list, or the handler's default list
RequestedModes(r) ==
    IF request[r].ai_modes.given THEN request[r].ai_modes.list ELSE HandlerDefaultModes

LacksSchemeOrHost(url) == urlparse(url).scheme = "" \/ urlparse(url).netloc = ""

\* C1 as stated: when the crawler reports failure, the handler returns an
\* envelope with success=false whose error carries the crawler's error text,
\* raises nothing, and runs no extraction or persistence step.
C1_AsStated ==
    \A r \in Reqs :
        local[r].crawl = "failed" =>
            /\ response[r].kind = "envelope"
            /\ ~response[r].success
            /\ Carries(response[r].error, local[r].crawl_error)
            /\ NoExtractionOrPersistence(r)

\* C1 amended: when the crawler reports failure, the handler raises an HTTP
\* 500 error to its caller whose detail carries the crawler's error text (no
\* envelope is returned), and no extraction or persistence step runs.
C1_CrawlFailureRaises500 ==
    \A r \in Reqs :
        local[r].crawl = "failed" =>
            /\ pc[r] = "done"
            /\ response[r].kind = "http_error"
            /\ response[r].status = 500
            /\ Carries(response[r].detail, local[r].crawl_error)
            /\ NoExtractionOrPersistence(r)
            /\ StoreUntouched

C1_Witness ==
    \E r \in Reqs : local[r].crawl = "failed" /\ pc[r] = "done" /\ effects[r].crawler = 1

C3_AsStated ==
    \A r \in Reqs :
        (/\ pc[r] = "done"
         /\ request[r].ai_modes = [given |-> TRUE, list |-> <<"content_summary">>]
         /\ ~request[r].save_files
         /\ ~LacksSchemeOrHost(request[r].url)
         /\ local[r].crawl \notin {"failed", "raised"})
        => /\ response[r].kind = "envelope"
           /\ response[r].success
           /\ "content_summary" \in DOMAIN response[r].ai_results
           /\ LET entry == response[r].ai_results["content_summary"]
              IN  "result" \in DOMAIN entry \/ "error" \in DOMAIN entry
           /\ effects[r].writes = 0 /\ effects[r].uploads = <<>> /\ effects[r].db = 0
           /\ StoreUntouched

\* C4: after a successful crawl the extractor is called once per requested
\* mode, in order; a failed mode is recorded under its own key and the later
\* modes are still attempted; the finished request holds an entry for every
\* requested mode and returns success=true.
C4_EveryModeAttempted ==
    \A r \in Reqs :
        local[r].crawl = "ok" =>
            /\ effects[r].extract = SubSeq(local[r].ai_modes, 1, local[r].next - 1)
            /\ DOMAIN local[r].ai_results = Range(effects[r].extract)
            /\ \A m \in DOMAIN local[r].ai_results :
                 LET entry == local[r].ai_results[m]
                 IN  \/ Get(entry, "success", FALSE) /\ "result" \in DOMAIN entry
                     \/ ~Get(entry, "success", FALSE) /\ "error" \in DOMAIN entry
            /\ pc[r] # "extract" => effects[r].extract = local[r].ai_modes
            /\ pc[r] = "done" =>
                 /\ response[r].kind = "envelope"
                 /\ response[r].success
                 /\ DOMAIN response[r].ai_results = Range(RequestedModes(r))

C4_Witness ==
    \E r \in Reqs :
        /\ pc[r] = "done" /\ response[r].success
        /\ Len(local[r].ai_modes) = 2
        /\ "error" \in DOMAIN response[r].ai_results[local[r].ai_modes[1]]
        /\ Get(response[r].ai_results[local[r].ai_modes[2]], "success", FALSE)

\* ------------------------------------------------- claims about extract
IsSuccessShape(e) ==
    DOMAIN e = {"success", "mode", "provider", "result", "timestamp"} /\ e.success

IsErrorShape(e) ==
    "error" \in DOMAIN e /\ "result" \notin DOMAIN e /\ ~Get(e, "success", FALSE)

Placeholder(p) == IF p = "openai" THEN OpenAIPlaceholder ELSE QwenPlaceholder

\* the section a configuration defines for provider p: at the top level, or
\* under "llm" as in the built-in default configuration
DefinedSection(cfg, p) ==
    IF cfg[p].present THEN cfg[p]
    ELSE IF cfg.llm.present THEN cfg.llm[p] ELSE NoSection

\* the provider and mode a call ends up with
CallProvider == IF call.provider = Missing THEN DefaultProvider(config) ELSE call.provider

CallMode == IF call.mode = Missing THEN DefaultMode(config) ELSE call.mode

\* provider p gets as far as its HTTP call
Usable(cfg, p) ==
    /\ cfg.kind = "map"
    /\ \/ p = "local_llm"
       \/ p \in {"openai", "qwen"} /\ cfg[p].api_key \notin {Missing, "", Placeholder(p)}

OkResponse(resp) == resp.kind = "response" /\ resp.status = 200 /\ resp.body = "completion"

\* C5 as stated: with a provider name outside the dispatch set, extract
\* returns the "unsupported provider" error envelope, raises nothing and
\* issues no HTTP request, whatever the content and the mode.
C5_AsStated ==
    (call.made /\ call.provider \notin {Missing, "openai", "local_llm", "qwen"})
    => /\ ~call.outcome.raised
       /\ IsErrorShape(call.outcome.envelope)
       /\ call.outcome.envelope.error = <<"unsupported provider: ", call.provider>>
       /\ call.outcome.requests = <<>>

\* C6 as stated: openai and qwen with a missing, empty or placeholder
\* credential return the "credential not configured" envelope without raising
\* and without an HTTP call; local_llm goes on to its HTTP call with no
\* credential.
C6_AsStated ==
    call.made =>
        /\ (/\ call.provider \in {"openai", "qwen"}
            /\ DefinedSection(config, call.provider).api_key
                   \in {Missing, "", Placeholder(call.provider)})
           => /\ ~call.outcome.raised
              /\ call.outcome.envelope = ErrorEnvelope(CredentialError)
              /\ call.outcome.requests = <<>>
        /\ call.provider = "local_llm"
           => /\ ~call.outcome.raised
              /\ Len(call.outcome.requests) = 1
              /\ call.outcome.requests[1].auth = Missing

C8_UnregisteredModeFallsBack ==
    (/\ call.made
     /\ call.mode # Missing
     /\ call.mode \notin get_available_modes(config)
     /\ Usable(config, CallProvider)
     /\ OkResponse(call.resp))
    => /\ ~call.outcome.raised
       /\ IsSuccessShape(call.outcome.envelope)
       /\ call.outcome.envelope.mode = call.mode
       /\ call.outcome.envelope.result = CompletionText
       /\ Len(call.outcome.requests) = 1
       /\ call.outcome.requests[1].prompt
              = <<"analyse the following content:", "NL">> \o call.content

C8_Witness ==
    /\ call.made /\ call.mode = "nonexistent_mode" /\ call.content # <<>>
    /\ IsSuccessShape(call.outcome.envelope)
    /\ call.outcome.envelope.mode = "nonexistent_mode"

\* the part of a sent prompt that stands where the template has {content}
PromptContent(prompt, template) ==
    SubSeq(prompt, Len(template.pre) + 1, Len(prompt) - Len(template.post))

\* C9 as stated: in the prompt sent by extract, content of at most 4000
\* characters appears unchanged, and longer content is its first 4000
\* characters followed by the ellipsis marker.
C9_AsStated ==
    (call.made /\ Len(call.outcome.requests) = 1) =>
        LET sent == PromptContent(call.outcome.requests[1].prompt,
                                  SelectTemplate(config, CallMode))
        IN  IF Len(call.content) <= 4000
            THEN sent = call.content
            ELSE sent = SubSeq(call.content, 1, 4000) \o <<".", ".", ".">>

\* C10 as stated: without a provider extract uses the default provider that
\* GET /providers reports, with the endpoint, credential and model the
\* configuration defines for it; without a mode it uses the configured
\* default mode.
C10_AsStated ==
    (call.made /\ ~call.outcome.raised) =>
        LET e == call.outcome.envelope
            reported == ReportedDefaultProvider(config)
            section == DefinedSection(config, reported)
        IN  /\ (call.mode = Missing /\ IsSuccessShape(e) /\ config.extraction.default_mode # Missing)
                  => e.mode = config.extraction.default_mode
            /\ (call.provider = Missing /\ IsSuccessShape(e)) => e.provider = reported
            /\ (call.provider = Missing /\ Len(call.outcome.requests) = 1)
                  => LET sent == call.outcome.requests[1]
                     IN  /\ section.api_key # Missing => sent.auth = section.api_key
                         /\ section.model # Missing => sent.model = section.model
                         /\ section.base_url # Missing => sent.url[1] = section.base_url

\* the configuration defines a section for provider p, at the top level or
\* under "llm" (where the built-in default configuration keeps them)
ConfiguredSection(cfg, p) ==
    IF cfg[p].present THEN cfg[p]
    ELSE IF cfg.llm.present /\ cfg.llm[p].present THEN cfg.llm[p]
    ELSE NoSection

\* C11 as stated: get_available_modes() returns exactly the keys of the
\* configured prompt templates, and get_available_providers() returns exactly
\* the configured providers whose required credential is present and
\* non-empty, the local provider being listed whenever it is configured.
C11_AsStated ==
    /\ config.kind = "map"
    /\ get_available_modes(config) = DOMAIN config.extraction.prompts
    /\ Range(get_available_providers(config))
         = {p \in Providers :
               /\ ConfiguredSection(config, p).present
               /\ p # "local_llm" => ConfiguredSection(config, p).api_key \notin {Missing, ""}}

\* the artifact paths of the upload attempts of request r
UploadPaths(r) == {effects[r].uploads[i].path : i \in 1..Len(effects[r].uploads)}

\* C12: nothing is retried. Within one crawl request the crawler is invoked
\* at most once, the extraction dispatcher once per requested mode in the
\* requested order, each dispatcher call issues at most one HTTP request,
\* each artifact has at most one upload attempt and the database write runs
\* at most once, whatever failures occur.
C12_NothingIsRetried ==
    \A r \in Reqs :
        /\ effects[r].crawler <= 1
        /\ Len(effects[r].extract) <= Len(local[r].ai_modes)
        /\ effects[r].extract = SubSeq(local[r].ai_modes, 1, Len(effects[r].extract))
        /\ effects[r].http <= Len(effects[r].extract)
        /\ Cardinality(UploadPaths(r)) = Len(effects[r].uploads)
        /\ effects[r].db <= 1
        /\ (pc[r] = "done" /\ local[r].crawl = "ok")
              => effects[r].extract = local[r].ai_modes

C12_Witness ==
    \E r \in Reqs :
        /\ pc[r] = "done" /\ effects[r].crawler = 1
        /\ Len(effects[r].extract) = 2 /\ effects[r].http = 2
        /\ \E m \in DOMAIN local[r].ai_results : "error" \in DOMAIN local[r].ai_results[m]
        /\ \E i \in 1..Len(effects[r].uploads) : ~effects[r].uploads[i].ok
        /\ effects[r].db = 1

\* the file names of the artifacts of request r whose upload succeeded
UploadedNames(r) ==
    {effects[r].uploads[i].path[2] : i \in {j \in 1..Len(effects[r].uploads) : effects[r].uploads[j].ok}}

\* C13 as stated: once persistence has run, the minio_files entries of
\* storage_info and the committed file records are exactly the artifacts
\* whose upload succeeded, one entry and one record each; a failed upload
\* gets neither.
C13_AsStated ==
    \A r \in Reqs :
        (pc[r] = "done" /\ "minio_files" \in DOMAIN response[r].storage_info) =>
            LET listed == response[r].storage_info.minio_files
            IN  /\ {listed[i].filename : i \in 1..Len(listed)} = UploadedNames(r)
                /\ Len(listed) = Cardinality(UploadedNames(r))
                /\ {db_files[i].filename : i \in 1..Len(db_files)} = UploadedNames(r)
                /\ Len(db_files) = Cardinality(UploadedNames(r))

\* the handler of request r has got past the validation of lines 394-409
Admitted(r) == pc[r] \in {"crawl", "extract", "save_markdown", "save_ai", "save_json",
                          "save_db", "respond"} \/ (pc[r] = "done" /\ effects[r].crawler = 1)

\* the request ended in failure: an HTTP error or an envelope with success=false
RequestFailed(r) ==
    pc[r] = "done" /\ (response[r].kind = "http_error" \/ ~response[r].success)

\* C14 as stated: a task row exists from the start of an admitted request,
\* a request that reached the database write ends with a task row whose
\* status is completed or failed according to its outcome, and a failed
\* request leaves no row marked completed.
C14_AsStated ==
    \A r \in Reqs :
        /\ Admitted(r) => Len(db_tasks) >= 1
        /\ (pc[r] = "done" /\ effects[r].db = 1) =>
              \E i \in 1..Len(db_tasks) :
                  db_tasks[i].status = IF RequestFailed(r) THEN "failed" ELSE "completed"
        /\ RequestFailed(r) => \A i \in 1..Len(db_tasks) : db_tasks[i].status # "completed"

\* the latest operation loaded the file: the constructor or reload_config
LoadedNow == op.name \in {"construct", "reload_config"}

\* C15 as stated: load fails with ConfigError when the source is missing or
\* malformed, and returns an empty mapping without error when the source is
\* syntactically valid but empty.
C15_AsStated ==
    LoadedNow =>
        /\ app_config_file.state \in {"missing", "malformed"}
              => op.raised /\ op.exc = "ConfigError"
        /\ app_config_file.state = "empty"
              => ~op.raised /\ _config = Map(NoMap)

\* C16 as stated: validate_all answers true exactly when its error list is
\* empty; a document with warnings only is loaded, and a document with at
\* least one error makes loading fail with ConfigError.
C16_AsStated ==
    (LoadedNow /\ app_config_file.state \in {"empty", "document"}) =>
        LET document == load_config(app_config_file).document
            answer == validate_all(document)
        IN  /\ answer.valid <=> answer.errors = <<>>
            /\ errors = answer.errors /\ warnings = answer.warnings
            /\ answer.errors = <<>> => ~op.raised /\ _config = document
            /\ answer.errors # <<>> => op.raised /\ op.exc = "ConfigError"

\* the validator half of C16: true exactly when no error was accumulated,
\* whatever the warnings
C16_ValidIffNoErrors ==
    op.name = "validate_all" => (op.valid <=> errors = <<>>)

\* the error list has an entry of that text about that value
HasError(text, arg) == \E i \in 1..Len(errors) : errors[i].text = text /\ errors[i].arg = arg

MissingFieldText(section) ==
    CASE section = "app" -> "app config lacks required field: "
      [] section = "database" -> "database config lacks required field: "
      [] OTHER -> "MinIO config lacks required field: "

\* C17 as stated: whenever a present section (app, database, minio) of the
\* validated document lacks one of its required fields, validate_all answers
\* false and the error list has an entry naming that field.
C17_AsStated ==
    op.name = "validate_all" =>
        \A section \in {"app", "database", "minio"} :
            \A field \in RequiredOf(section) :
                (Contains(op.doc, section) /\ ~Contains(op.doc.m[section], field))
                    => ~op.valid /\ HasError(MissingFieldText(section), Str(field))

\* C18: get_nested_config walks the dot-separated path through the in-memory
\* configuration: it returns the value at the path when every segment
\* exists; when a segment is missing or an intermediate value is not a
\* mapping it returns the supplied default, and raises a lookup error
\* (KeyError) when no default was supplied; the configuration is unchanged.
C18_NestedLookup ==
    op.name = "get_nested_config" =>
        LET target == Walk(op.before, Split(op.path))
        IN  /\ _config = op.before
            /\ target.found => ~op.raised /\ op.result = target.value
            /\ (~target.found /\ op.default # None) => ~op.raised /\ op.result = op.default
            /\ (~target.found /\ op.default = None) => op.raised /\ op.exc = "KeyError"

C18_Witness ==
    /\ op.name = "get_nested_config"
    /\ op.path = <<"database", ".", "pool", ".", "timeout">>
    /\ op.default = Num(0) /\ ~op.raised /\ op.result = Num(0)

\* the error list has a port entry for that section
HasPortError(section) ==
    \E i \in 1..Len(errors) :
        errors[i].text = IF section = "server" THEN "invalid server port: "
                         ELSE "invalid database port: "

\* the run was ended by an exception of a section validator
ValidationRaised == \E i \in 1..Len(errors) : errors[i].text = "validation raised: "

\* C19: for every integer port of the server or database section outside
\* [1, 65535] validation reports an error (the port entry, unless an
\* exception ended the run, which is then the reported error) and
\* validate_all answers false; for every integer port inside the range no
\* port error is reported for that section.
C19_PortRange ==
    op.name = "validate_all" =>
        \A section \in {"server", "database"} :
            (/\ Contains(op.doc, section)
             /\ Contains(op.doc.m[section], "port")
             /\ op.doc.m[section].m["port"].t = "int") =>
                LET port == op.doc.m[section].m["port"].n
                IN  IF port < 1 \/ port > 65535
                    THEN ~op.valid /\ errors # <<>>
                         /\ (HasPortError(section) \/ ValidationRaised)
                    ELSE ~HasPortError(section)

C19_Witness ==
    /\ op.name = "validate_all"
    /\ Contains(op.doc, "database") /\ Contains(op.doc.m["database"], "port")
    /\ op.doc.m["database"].m["port"] = Num(65536)
    /\ Contains(op.doc, "server") /\ Contains(op.doc.m["server"], "port")
    /\ op.doc.m["server"].m["port"] = Num(65535)
    /\ HasPortError("database") /\ ~HasPortError("server") /\ ~op.valid

\* C20: update_config never changes the configuration source, and after a
\* successful reload_config the in-memory configuration is what a fresh load
\* of the source yields, every in-memory update discarded.
C20_ReloadIsFull ==
    [][/\ op'.name = "update_config" => app_config_file' = app_config_file
       /\ (op'.name = "reload_config" /\ ~op'.raised)
             => _config' = load_config(app_config_file).config]_vars

C20_Witness ==
    /\ op.name = "reload_config" /\ ~op.raised
    /\ Contains(op.before, "cache") /\ ~Contains(_config, "cache")
    /\ _config = app_config_file.doc

\* the rows of crawl_tasks written for request r
TaskRowsOf(r) ==
    {i \in 1..Len(db_tasks) : db_tasks[i].url = request[r].url
                               /\ db_tasks[i].created_at = local[r].timestamp}

\* C21 as stated: after _save_to_database has returned, either the task row
\* and all of its file rows are committed or none of them is; if writing a
\* file row fails, no task row of the request remains.
C21_AsStated ==
    \A r \in Reqs :
        effects[r].db = 1 =>
            \/ TaskRowsOf(r) = {}
            \/ \E t \in TaskRowsOf(r) :
                  \A i \in 1..Len(local[r].minio_urls) :
                      \E j \in 1..Len(db_files) :
                          /\ db_files[j].task_id = db_tasks[t].id
                          /\ db_files[j].filename = local[r].minio_urls[i].filename

\* no write of a temp file of request r has failed
NoWriteFailed(r) == effects[r].writes = Len(effects[r].uploads)

\* the artifacts of one pass: the markdown file, one file per successful
\* mode, the JSON document
ArtifactsDue(r) == 2 + Len(SuccessfulModes(local[r].ai_modes, local[r].ai_results))

\* C22: within one persistence pass a failed upload of one artifact does
\* not stop the upload attempts for the artifacts after it: unless a temp
\* file could not be written, a pass that has ended has attempted every
\* artifact due and has run the database write, and a step that ends in a
\* failed upload goes on to the next artifact or to the database write.
C22_UploadsContinue ==
    \A r \in Reqs :
        /\ (pc[r] \in {"respond", "done"} /\ effects[r].writes > 0 /\ NoWriteFailed(r)) =>
              /\ Len(effects[r].uploads) = ArtifactsDue(r)
              /\ effects[r].db = 1
        /\ (effects[r].uploads # <<>> /\ NoWriteFailed(r)
              /\ ~effects[r].uploads[Len(effects[r].uploads)].ok) =>
              \/ pc[r] \in {"save_ai", "save_json", "save_db"}
              \/ effects[r].db = 1

C22_Witness ==
    \E r \in Reqs :
        /\ pc[r] = "done" /\ NoWriteFailed(r) /\ effects[r].db = 1
        /\ Len(effects[r].uploads) = 4
        /\ ~effects[r].uploads[1].ok /\ ~effects[r].uploads[2].ok
        /\ effects[r].uploads[3].ok /\ ~effects[r].uploads[4].ok

\* request r has begun to persist: a temp file, an upload or a database write
PersistenceBegun(r) ==
    effects[r].writes > 0 \/ effects[r].uploads # <<>> \/ effects[r].db > 0

\* C23: within one crawl request the crawl has completed before the first
\* extraction, the extractions run in the requested order with at most one
\* HTTP call each, and no temp file, upload or database write comes before
\* the last extraction has finished.
C23_StepsInOrder ==
    \A r \in Reqs :
        /\ effects[r].crawler <= 1
        /\ effects[r].extract # <<>> => effects[r].crawler = 1 /\ local[r].crawl = "ok"
        /\ Len(effects[r].extract) <= Len(local[r].ai_modes)
        /\ effects[r].extract = SubSeq(local[r].ai_modes, 1, Len(effects[r].extract))
        /\ effects[r].http <= Len(effects[r].extract)
        /\ pc[r] = "extract" => local[r].next = Len(effects[r].extract) + 1
        /\ PersistenceBegun(r) =>
              /\ local[r].crawl = "ok"
              /\ effects[r].extract = local[r].ai_modes
              /\ pc[r] # "extract"

C23_Witness ==
    \E r \in Reqs :
        /\ pc[r] = "done" /\ effects[r].db = 1
        /\ effects[r].extract = <<"structured_data", "content_summary">>
        /\ effects[r].http = 2
        /\ Len(effects[r].uploads) = 4

\* the uploads of request r that succeeded
StoredBy(r) ==
    {i \in 1..Len(effects[r].uploads) : effects[r].uploads[i].ok}

\* C24 as stated: in every interleaving of two requests the temp directory,
\* the temp files and the uploaded object names of each request are its
\* own, and no request overwrites a stored object of the other: every
\* successful upload of either request is an object of its own in storage.
C24_AsStated ==
    \A r1, r2 \in Reqs :
        r1 # r2 =>
            /\ (effects[r1].writes > 0 /\ effects[r2].writes > 0) =>
                  TempDir(local[r1].timestamp) # TempDir(local[r2].timestamp)
            /\ \A i \in 1..Len(effects[r1].uploads), j \in 1..Len(effects[r2].uploads) :
                  /\ effects[r1].uploads[i].path # effects[r2].uploads[j].path
                  /\ <<effects[r1].uploads[i].bucket_name, effects[r1].uploads[i].object_name>>
                       # <<effects[r2].uploads[j].bucket_name, effects[r2].uploads[j].object_name>>
            /\ Cardinality(objects) = Cardinality(StoredBy(r1)) + Cardinality(StoredBy(r2))

\* the part of C24 that holds: two requests that arrive in different seconds
\* share no temp file and no object name
C24_DistinctSeconds ==
    \A r1, r2 \in Reqs :
        (r1 # r2 /\ local[r1].timestamp # local[r2].timestamp) =>
            /\ \A i \in 1..Len(effects[r1].uploads), j \in 1..Len(effects[r2].uploads) :
                  /\ effects[r1].uploads[i].path # effects[r2].uploads[j].path
                  /\ <<effects[r1].uploads[i].bucket_name, effects[r1].uploads[i].object_name>>
                       # <<effects[r2].uploads[j].bucket_name, effects[r2].uploads[j].object_name>>
            /\ Cardinality(objects) = Cardinality(StoredBy(r1)) + Cardinality(StoredBy(r2))

\* the configuration has that required section with its required fields
HasRequired(configuration, section) ==
    /\ Contains(configuration, section)
    /\ \A f \in RequiredOf(section) : Contains(configuration.m[section], f)

\* every key of the one mapping is a key of the other, section by section
KeysKept(before, after) ==
    \A section \in DOMAIN before.m :
        /\ Contains(after, section)
        /\ before.m[section].t = "map" =>
              \A key \in DOMAIN before.m[section].m : Contains(after.m[section], key)

\* C25: for a successfully constructed ConfigLoader, after any sequence of
\* update_config and reload_config calls, failed reloads included, the
\* in-memory configuration contains the sections database and minio with
\* all of their required fields; update_config removes no key and a failed
\* reload leaves the configuration as it was.
C25_RequiredKept ==
    _config # None =>
        /\ HasRequired(_config, "database") /\ HasRequired(_config, "minio")
        /\ op.name = "update_config" => KeysKept(op.before, _config)
        /\ (op.name = "reload_config" /\ op.raised) => _config = op.before

C25_Witness ==
    /\ op.name = "reload_config" /\ op.raised
    /\ app_config_file.state = "document" /\ ~Contains(app_config_file.doc, "database")
    /\ _config.m["database"].m["port"] = Str("x")
    /\ HasRequired(_config, "database")

\* the place in validate_all of the section an entry is about: app, server,
\* database, minio, ai, crawl, logging, and last the exception entry
SectionRank(entry) ==
    CASE entry.text \in {"app config lacks required field: ",
                         "version should be semantic (x.y.z): "} -> 1
      [] entry.text \in {"invalid server port: ", "invalid worker count: ",
                         "invalid server timeout: "} -> 2
      [] entry.text \in {"database config lacks required field: ", "invalid database port: ",
                         "database host may be malformed: ", "invalid pool size: ",
                         "invalid pool max_overflow: "} -> 3
      [] entry.text = "missing config section: " -> IF entry.arg = Str("database") THEN 3 ELSE 4
      [] entry.text \in {"MinIO config lacks required field: ", "invalid MinIO endpoint: ",
                         "MinIO access key must not be empty",
                         "MinIO secret key must not be empty", "MinIO buckets must be a mapping",
                         "invalid MinIO bucket name: ", "invalid MinIO max_file_size: "} -> 4
      [] entry.text \in {"default AI provider is not defined: ", "config lacks API key",
                         "API key is empty", "base URL invalid: ", "max_tokens invalid: ",
                         "temperature invalid: "} -> 5
      [] entry.text \in {"crawl content sources must be a list", "crawl timeout invalid: ",
                         "unknown content source: "} -> 6
      [] entry.text \in {"invalid log level: ", "log files config must be a mapping"} -> 7
      [] OTHER -> 8

\* the entries of a list follow the order of the sections
InSectionOrder(list) ==
    \A i, j \in 1..Len(list) : i < j => SectionRank(list[i]) <= SectionRank(list[j])

\* C26: the error and warning lists are reset at the start of every
\* validate_all call: after any sequence of calls on the shared validator
\* the two lists hold exactly the entries produced for the configuration of
\* the most recent call, in the order the sections were checked, nothing
\* carried over from earlier calls.
C26_ListsOfLastCall ==
    op.name = "validate_all" =>
        /\ errors = validate_all(op.doc).errors
        /\ warnings = validate_all(op.doc).warnings
        /\ InSectionOrder(errors) /\ InSectionOrder(warnings)

C26_Witness ==
    /\ op.name = "validate_all" /\ op.n = 2 /\ op.before.n >= 3
    /\ Len(errors) = 1 /\ errors[1].arg = Str("host") /\ warnings = <<>>

\* the latest call of extract got as far as its HTTP request
ReachedHttp == ~call.outcome.raised /\ call.outcome.requests # <<>>

\* C27 as stated: every provider get_available_providers() returns is usable
\* by extract: extract(content, provider=p) returns neither the "unsupported
\* provider" failure nor the "credential not configured" failure, it reaches
\* the HTTP call.
C27_AsStated ==
    (/\ call.made /\ config.kind = "map"
     /\ call.provider \in Range(get_available_providers(config))) =>
        /\ ReachedHttp
        /\ Get(call.outcome.envelope, "error", <<>>) # CredentialError
        /\ Get(call.outcome.envelope, "error", <<>>) # <<"unsupported provider: ", call.provider>>

\* the providers extract dispatches to are usable when listed, unless the
\* key is the placeholder of the configuration template
C27_DispatchedAndKeyed ==
    (/\ call.made /\ config.kind = "map"
     /\ call.provider \in Range(get_available_providers(config)) \cap DispatchSet
     /\ config[call.provider].api_key \notin {OpenAIPlaceholder, QwenPlaceholder}) =>
        ReachedHttp

\* the handler of request r has answered 400 because of its modes
RejectedForModes(r) ==
    /\ pc[r] = "done" /\ response[r].kind = "http_error" /\ response[r].status = 400
    /\ response[r].detail[1] = "invalid modes"

\* C28 as stated: with the extractor on its built-in default configuration
\* every default mode list of the API (POST /crawl, GET /crawl_simple, the
\* handler's own) is within get_available_modes(), and a request that does
\* not name its modes is never rejected by the mode validation.
C28_AsStated ==
    config = _get_default_config =>
        /\ \A defaults \in {CrawlRequestDefaultModes, CrawlSimpleDefaultModes,
                             HandlerDefaultModes} :
              InvalidModes(defaults, get_available_modes(config)) = <<>>
        /\ \A r \in Reqs : ~request[r].ai_modes.given => ~RejectedForModes(r)

\* C29 as stated: whatever the state of the AI configuration file, the
\* constructed AIExtractor holds a configuration mapping, and no call of
\* extract raises: it returns an envelope.
C29_AsStated ==
    /\ config.kind = "map"
    /\ call.made => ~call.outcome.raised

\* the part of C29 that holds: a missing, unreadable or malformed file gives
\* the built-in default configuration
C29_DefaultOnFailure ==
    config_file.state \in {"missing", "unreadable", "malformed"} =>
        /\ config = _get_default_config
        /\ call.made => ~call.outcome.raised

\* C30 as stated: for every requested mode whose extraction succeeded, the
\* AI artifact persisted for that mode, as a temp file and as a stored
\* object, contains the completion text the success envelope carries in
\* its result field.
C30_AsStated ==
    \A r \in Reqs :
        \A m \in DOMAIN local[r].ai_results :
            LET name == AiName(m, local[r].timestamp)
                result == Get(local[r].ai_results[m], "result", "")
            IN  /\ \A f \in temp_files :
                      f.path = <<TempDir(local[r].timestamp), name>> => Carries(f.body, result)
                /\ \A o \in objects : o.bucket = name => Carries(o.body, result)

====
